---- MODULE Spec2Model ----
(***************************************************************************)
(* HVDC warehouse toolkit: the inventory flow computation.                 *)
(*                                                                         *)
(*   core/inventory_engine.py      InventoryEngine (daily running balance, *)
(*                                 validation against expected stock)      *)
(*   core/loader.py                DataLoader (wide rows -> transactions)  *)
(*   core/deduplication.py         DeduplicationEngine                     *)
(*   test_excel_reporter.py        transactions_to_dataframe               *)
(*   legacy/hvdc_*.py              classifiers and the monthly flow        *)
(*                                                                         *)
(* Dates are day numbers, months are month numbers, data frames are        *)
(* sequences of records whose fields carry the column names of the code.   *)
(***************************************************************************)
EXTENDS Integers, Sequences, FiniteSets, TLC

VARIABLES
    pc,         \* position of the driver of the specification at hand
    df,         \* the transaction table handed to InventoryEngine(df)
    clock,      \* the wall clock (a day number): pd.Timestamp.now()
    stock,      \* result of the (first) calculate_daily_inventory()
    stock2,     \* result of a second construction + calculate_daily_inventory()
    expected,   \* the expected-stock mapping handed to the validation
    validation, \* result of validate_inventory_results(expected)
    case_events,    \* DataLoader: the events of the row, sorted by date
    transactions,   \* DataLoader: the raw transactions extracted
    transaction_df, \* transactions_to_dataframe, then the deduplication
    row,            \* the row handed to a transaction classifier
    tx_type,        \* the kind the classifier returned
    flow_df,        \* monthly analyses: the input rows
    all_months,     \* monthly analyses: the month range
    monthly_flow,   \* legacy flow analysis: create_warehouse_monthly_flow's result
    names,          \* location names handed to a normalizer or to the group lookup
    results,        \* what the normalizer or the lookup returned, name by name
    reports,        \* the sheets of the 8-sheet reporter
    excel_files,    \* DataLoader: the batch handed to extract_transactions
    integrity,      \* what validate_transfer_integrity returned
    mapping_file,   \* HVDCDataLoader: the mapping file on disk, if any
    mapping_rules,  \* HVDCDataLoader: self.mapping_rules
    df_raw,         \* HVDCDataLoader: the columns of the frame to map
    df_mapped,      \* HVDCDataLoader: the columns apply_column_mapping returned
    dedup_df,       \* what drop_duplicate_transfers returned for transaction_df
    ledger,         \* the ledger handed to InventoryEngine for the monthly summary
    monthly,        \* result of calculate_monthly_summary()
    sheet_rows,     \* DataLoader: the rows of the sheet being extracted
    walk_stock      \* result of the reporter script's calculate_daily_inventory

engineVars == <<df, clock, stock, stock2, expected, validation>>

pipeVars == <<case_events, transactions, transaction_df>>

classVars == <<row, tx_type>>

flowVars == <<flow_df, all_months, monthly_flow>>

auxVars == <<names, results>>

reportVars == <<reports>>

hvdcVars == <<excel_files, integrity, mapping_file, mapping_rules, df_raw, df_mapped>>

extraVars == <<dedup_df, ledger, monthly, sheet_rows, walk_stock>>

vars ==
    <<pc, engineVars, pipeVars, classVars, flowVars, auxVars, reportVars, hvdcVars,
      extraVars>>

\* ------------------------------------------------------------------ bounds

MaxTx == 2          \* rows of a transaction table
MaxDay == 3         \* days (and wall-clock days) 1..MaxDay

Days == 1..MaxDay

\* The quantities of the rows of a table.
Quantities == {1, 2}

\* --------------------------------------------------------------- helpers

Max(a, b) == IF a >= b THEN a ELSE b

Abs(x) == IF x < 0 THEN -x ELSE x

RECURSIVE Concat(_)
Concat(ss) == IF ss = <<>> THEN <<>> ELSE Head(ss) \o Concat(Tail(ss))

\* The elements of a finite set of integers, ascending (sort_values).
RECURSIVE SortedAsc(_)
SortedAsc(S) ==
    IF S = {} THEN <<>>
    ELSE LET m == CHOOSE x \in S : \A y \in S : x <= y
         IN <<m>> \o SortedAsc(S \ {m})

\* The elements of a finite set of integers, descending.
RECURSIVE SortedDesc(_)
SortedDesc(S) ==
    IF S = {} THEN <<>>
    ELSE LET m == CHOOSE x \in S : \A y \in S : x >= y
         IN <<m>> \o SortedDesc(S \ {m})

\* All sequences over S of length at most n.
SeqsUpTo(S, n) == UNION {[1..k -> S] : k \in 0..n}

\* ------------------------------------------------------------------ text
\* A text value is named by a string; the code's substring tests, case
\* folding and stripping work on its characters, which Spelling gives.

Spelling ==
       "markaz" :> <<"m", "a", "r", "k", "a", "z">>
       @@ "m1" :> <<"m", "1">>
       @@ "al markaz" :> <<"a", "l", " ", "m", "a", "r", "k", "a", "z">>
       @@ "almarkaz" :> <<"a", "l", "m", "a", "r", "k", "a", "z">>
       @@ "al_markaz" :> <<"a", "l", "_", "m", "a", "r", "k", "a", "z">>
       @@ "indoor" :> <<"i", "n", "d", "o", "o", "r">>
       @@ "m44" :> <<"m", "4", "4">>
       @@ "hauler indoor" :> <<"h", "a", "u", "l", "e", "r", " ", "i", "n", "d", "o", "o", "r">>
       @@ "hauler_indoor" :> <<"h", "a", "u", "l", "e", "r", "_", "i", "n", "d", "o", "o", "r">>
       @@ "outdoor" :> <<"o", "u", "t", "d", "o", "o", "r">>
       @@ "out" :> <<"o", "u", "t">>
       @@ "mosb" :> <<"m", "o", "s", "b">>
       @@ "mzp" :> <<"m", "z", "p">>
       @@ "dhl" :> <<"d", "h", "l">>
       @@ "aaa" :> <<"a", "a", "a">>
       @@ "dsv al markaz" :> <<"d", "s", "v", " ", "a", "l", " ", "m", "a", "r", "k", "a", "z">>
       @@ "dsv indoor" :> <<"d", "s", "v", " ", "i", "n", "d", "o", "o", "r">>
       @@ "dsv outdoor" :> <<"d", "s", "v", " ", "o", "u", "t", "d", "o", "o", "r">>
       @@ "dsv mzp" :> <<"d", "s", "v", " ", "m", "z", "p">>
       @@ "dhl wh" :> <<"d", "h", "l", " ", "w", "h">>
       @@ "aaa storage" :> <<"a", "a", "a", " ", "s", "t", "o", "r", "a", "g", "e">>
       @@ "storage" :> <<"s", "t", "o", "r", "a", "g", "e">>
       @@ "U+CC3D U+ACE0" :> <<"U+CC3D", "U+ACE0">>
       @@ "site" :> <<"s", "i", "t", "e">>
       @@ "U+C0AC U+C774 U+D2B8" :> <<"U+C0AC", "U+C774", "U+D2B8">>
       @@ "eta" :> <<"e", "t", "a">>
       @@ "etd" :> <<"e", "t", "d">>
       @@ "ata" :> <<"a", "t", "a">>
       @@ "atd" :> <<"a", "t", "d">>
       @@ "date" :> <<"d", "a", "t", "e">>
       @@ "time" :> <<"t", "i", "m", "e">>
       @@ "arrival" :> <<"a", "r", "r", "i", "v", "a", "l">>
       @@ "departure" :> <<"d", "e", "p", "a", "r", "t", "u", "r", "e">>
       @@ "DSV Al Markaz" :> <<"D", "S", "V", " ", "A", "l", " ", "M", "a", "r", "k", "a", "z">>
       @@ "DSV Indoor" :> <<"D", "S", "V", " ", "I", "n", "d", "o", "o", "r">>
       @@ "DSV Outdoor" :> <<"D", "S", "V", " ", "O", "u", "t", "d", "o", "o", "r">>
       @@ "MOSB" :> <<"M", "O", "S", "B">>
       @@ "DSV MZP" :> <<"D", "S", "V", " ", "M", "Z", "P">>
       @@ "DHL WH" :> <<"D", "H", "L", " ", "W", "H">>
       @@ "AAA Storage" :> <<"A", "A", "A", " ", "S", "t", "o", "r", "a", "g", "e">>
       @@ "Storage" :> <<"S", "t", "o", "r", "a", "g", "e">>
       @@ "Site" :> <<"S", "i", "t", "e">>
       @@ "UNKNOWN" :> <<"U", "N", "K", "N", "O", "W", "N">>
       @@ "" :> <<>>
       @@ "Hauler Indoor" :> <<"H", "a", "u", "l", "e", "r", " ", "I", "n", "d", "o", "o", "r">>
       @@ "MOSB ETA" :> <<"M", "O", "S", "B", " ", "E", "T", "A">>
       @@ "AGI" :> <<"A", "G", "I">>
       @@ "DAS" :> <<"D", "A", "S">>
       @@ "MIR" :> <<"M", "I", "R">>
       @@ "SHU" :> <<"S", "H", "U">>
       @@ "IN" :> <<"I", "N">>
       @@ "OUT" :> <<"O", "U", "T">>
       @@ "TRANSFER" :> <<"T", "R", "A", "N", "S", "F", "E", "R">>
       @@ "INBOUND" :> <<"I", "N", "B", "O", "U", "N", "D">>
       @@ "OUTBOUND" :> <<"O", "U", "T", "B", "O", "U", "N", "D">>
       @@ "RECEIVE" :> <<"R", "E", "C", "E", "I", "V", "E">>
       @@ "ARRIVAL" :> <<"A", "R", "R", "I", "V", "A", "L">>
       @@ "SHIP" :> <<"S", "H", "I", "P">>
       @@ "DELIVERY" :> <<"D", "E", "L", "I", "V", "E", "R", "Y">>
       @@ "FINAL_OUT" :> <<"F", "I", "N", "A", "L", "_", "O", "U", "T">>
       @@ "TRANSFER_OUT" :> <<"T", "R", "A", "N", "S", "F", "E", "R", "_", "O", "U", "T">>
       @@ "Transfer" :> <<"T", "r", "a", "n", "s", "f", "e", "r">>
       @@ "Received" :> <<"R", "e", "c", "e", "i", "v", "e", "d">>
       @@ "Delivered" :> <<"D", "e", "l", "i", "v", "e", "r", "e", "d">>
       @@ "Pending" :> <<"P", "e", "n", "d", "i", "n", "g">>
       @@ "inbound" :> <<"i", "n", "b", "o", "u", "n", "d">>
       @@ "STOCK_OUT" :> <<"S", "T", "O", "C", "K", "_", "O", "U", "T">>
       @@ "Shipped" :> <<"S", "h", "i", "p", "p", "e", "d">>
       @@ "DSV INDOOR" :> <<"D", "S", "V", " ", "I", "N", "D", "O", "O", "R">>
       @@ "DSV_INDOOR" :> <<"D", "S", "V", "_", "I", "N", "D", "O", "O", "R">>
       @@ "INDOOR" :> <<"I", "N", "D", "O", "O", "R">>
       @@ "M44" :> <<"M", "4", "4">>
       @@ "DSV INDOOR WAREHOUSE" :> <<"D", "S", "V", " ", "I", "N", "D", "O", "O", "R", " ", "W", "A", "R", "E", "H", "O", "U", "S", "E">>
       @@ "INDOOR WH" :> <<"I", "N", "D", "O", "O", "R", " ", "W", "H">>
       @@ "DSV OUTDOOR" :> <<"D", "S", "V", " ", "O", "U", "T", "D", "O", "O", "R">>
       @@ "DSV_OUTDOOR" :> <<"D", "S", "V", "_", "O", "U", "T", "D", "O", "O", "R">>
       @@ "OUTDOOR" :> <<"O", "U", "T", "D", "O", "O", "R">>
       @@ "DSV OUTDOOR WAREHOUSE" :> <<"D", "S", "V", " ", "O", "U", "T", "D", "O", "O", "R", " ", "W", "A", "R", "E", "H", "O", "U", "S", "E">>
       @@ "OUTDOOR WH" :> <<"O", "U", "T", "D", "O", "O", "R", " ", "W", "H">>
       @@ "DSV AL MARKAZ" :> <<"D", "S", "V", " ", "A", "L", " ", "M", "A", "R", "K", "A", "Z">>
       @@ "DSV_AL_MARKAZ" :> <<"D", "S", "V", "_", "A", "L", "_", "M", "A", "R", "K", "A", "Z">>
       @@ "MARKAZ" :> <<"M", "A", "R", "K", "A", "Z">>
       @@ "M1" :> <<"M", "1">>
       @@ "AL MARKAZ" :> <<"A", "L", " ", "M", "A", "R", "K", "A", "Z">>
       @@ "DSV MARKAZ" :> <<"D", "S", "V", " ", "M", "A", "R", "K", "A", "Z">>
       @@ "D.A.S" :> <<"D", ".", "A", ".", "S">>
       @@ "D A S" :> <<"D", " ", "A", " ", "S">>
       @@ "M.O.S.B" :> <<"M", ".", "O", ".", "S", ".", "B">>
       @@ "M O S B" :> <<"M", " ", "O", " ", "S", " ", "B">>
       @@ "SITE" :> <<"S", "I", "T", "E">>
       @@ "PROJECT" :> <<"P", "R", "O", "J", "E", "C", "T">>
       @@ "FIELD" :> <<"F", "I", "E", "L", "D">>
       @@ "CONSTRUCTION" :> <<"C", "O", "N", "S", "T", "R", "U", "C", "T", "I", "O", "N">>
       @@ "PLANT" :> <<"P", "L", "A", "N", "T">>
       @@ "STATION" :> <<"S", "T", "A", "T", "I", "O", "N">>
       @@ "DSV" :> <<"D", "S", "V">>
       @@ "WAREHOUSE" :> <<"W", "A", "R", "E", "H", "O", "U", "S", "E">>
       @@ "WH" :> <<"W", "H">>
       @@ "Dangerous Storage" :> <<"D", "a", "n", "g", "e", "r", "o", "u", "s", " ", "S", "t", "o", "r", "a", "g", "e">>
       @@ " MOSB " :> <<" ", "M", "O", "S", "B", " ">>
       @@ "MOSB Yard" :> <<"M", "O", "S", "B", " ", "Y", "a", "r", "d">>
       @@ "XYZ Depot" :> <<"X", "Y", "Z", " ", "D", "e", "p", "o", "t">>
       @@ "Markaz Indoor" :> <<"M", "a", "r", "k", "a", "z", " ", "I", "n", "d", "o", "o", "r">>
       @@ "Remarks" :> <<"R", "e", "m", "a", "r", "k", "s">>
       @@ "nan" :> <<"n", "a", "n">>
       @@ "case" :> <<"c", "a", "s", "e">>
       @@ "carton" :> <<"c", "a", "r", "t", "o", "n">>
       @@ "box" :> <<"b", "o", "x">>
       @@ "mr#" :> <<"m", "r", "#">>
       @@ "mr #" :> <<"m", "r", " ", "#">>
       @@ "sct ship no" :> <<"s", "c", "t", " ", "s", "h", "i", "p", " ", "n", "o">>
       @@ "case no" :> <<"c", "a", "s", "e", " ", "n", "o">>
       @@ "Case No." :> <<"C", "a", "s", "e", " ", "N", "o", ".">>
       @@ "Item" :> <<"I", "t", "e", "m">>
       @@ "Date" :> <<"D", "a", "t", "e">>
       @@ "U+B0A0 U+C9DC" :> <<"U+B0A0", "U+C9DC">>
       @@ "U+C218 U+B7C9" :> <<"U+C218", "U+B7C9">>
       @@ "Qty" :> <<"Q", "t", "y">>
       @@ "Volume" :> <<"V", "o", "l", "u", "m", "e">>
       @@ "U+AE08 U+C561" :> <<"U+AE08", "U+C561">>
       @@ "Amount" :> <<"A", "m", "o", "u", "n", "t">>
       @@ "Price" :> <<"P", "r", "i", "c", "e">>
       @@ "U+C704 U+CE58" :> <<"U+C704", "U+CE58">>
       @@ "Location" :> <<"L", "o", "c", "a", "t", "i", "o", "n">>
       @@ "Warehouse" :> <<"W", "a", "r", "e", "h", "o", "u", "s", "e">>
       @@ "U+C0C1 U+D0DC" :> <<"U+C0C1", "U+D0DC">>
       @@ "Status" :> <<"S", "t", "a", "t", "u", "s">>
       @@ "Type" :> <<"T", "y", "p", "e">>
       @@ "U+CF00 U+C774 U+C2A4" :> <<"U+CF00", "U+C774", "U+C2A4">>
       @@ "Case" :> <<"C", "a", "s", "e">>
       @@ "Case_No" :> <<"C", "a", "s", "e", "_", "N", "o">>
       @@ "Arrival Date" :> <<"A", "r", "r", "i", "v", "a", "l", " ", "D", "a", "t", "e">>
       @@ "Pri" :> <<"P", "r", "i">>
       @@ "hasSite" :> <<"h", "a", "s", "S", "i", "t", "e">>
       @@ "Shuttle Yard" :> <<"S", "h", "u", "t", "t", "l", "e", " ", "Y", "a", "r", "d">>

\* str.lower(), letter by letter.
LowerCase ==
    [c \in {"A", "B", "C", "D", "E", "F", "G", "H", "I", "J", "K", "L", "M",
             "N", "O", "P", "Q", "R", "S", "T", "U", "V", "W", "X", "Y", "Z"} |->
       CASE c = "A" -> "a" [] c = "B" -> "b" [] c = "C" -> "c" [] c = "D" -> "d"
         [] c = "E" -> "e" [] c = "F" -> "f" [] c = "G" -> "g" [] c = "H" -> "h"
         [] c = "I" -> "i" [] c = "J" -> "j" [] c = "K" -> "k" [] c = "L" -> "l"
         [] c = "M" -> "m" [] c = "N" -> "n" [] c = "O" -> "o" [] c = "P" -> "p"
         [] c = "Q" -> "q" [] c = "R" -> "r" [] c = "S" -> "s" [] c = "T" -> "t"
         [] c = "U" -> "u" [] c = "V" -> "v" [] c = "W" -> "w" [] c = "X" -> "x"
         [] c = "Y" -> "y" [] c = "Z" -> "z"]

\* str.lower()
Lower(cs) ==
    [i \in DOMAIN cs |-> IF cs[i] \in DOMAIN LowerCase THEN LowerCase[cs[i]] ELSE cs[i]]

\* str.upper()
Upper(cs) ==
    [i \in DOMAIN cs |->
        IF \E c \in DOMAIN LowerCase : LowerCase[c] = cs[i]
        THEN CHOOSE c \in DOMAIN LowerCase : LowerCase[c] = cs[i]
        ELSE cs[i]]

\* str.strip()
RECURSIVE Strip(_)
Strip(cs) ==
    IF cs = <<>> THEN cs
    ELSE IF Head(cs) = " " THEN Strip(Tail(cs))
    ELSE IF cs[Len(cs)] = " " THEN Strip(SubSeq(cs, 1, Len(cs) - 1))
    ELSE cs

StartsWith(cs, pat) ==
    Len(pat) <= Len(cs) /\ SubSeq(cs, 1, Len(pat)) = pat

\* pattern in text
Contains(pat, cs) ==
    \E i \in 0..(Len(cs) - Len(pat)) : SubSeq(cs, i + 1, i + Len(pat)) = pat

\* text.replace(pat, '')
RECURSIVE Remove(_, _)
Remove(cs, pat) ==
    IF cs = <<>> THEN cs
    ELSE IF StartsWith(cs, pat) THEN Remove(SubSeq(cs, Len(pat) + 1, Len(cs)), pat)
    ELSE <<Head(cs)>> \o Remove(Tail(cs), pat)

\* A variant of the rule search in which the last matching rule wins.
LastMatch(rules, cs, dflt) ==
    LET hits == {i \in DOMAIN rules :
                   \E k \in DOMAIN rules[i].patterns :
                       Contains(Spelling[rules[i].patterns[k]], cs)}
    IN IF hits = {} THEN dflt
       ELSE rules[CHOOSE i \in hits : \A j \in hits : i >= j].canonical

\* The first rule (in declaration order) one of whose patterns is in the
\* text; dflt when there is none.
FirstMatch(rules, cs, dflt) ==
    LET hits == {i \in DOMAIN rules :
                   \E k \in DOMAIN rules[i].patterns :
                       Contains(Spelling[rules[i].patterns[k]], cs)}
    IN IF hits = {} THEN dflt
       ELSE rules[CHOOSE i \in hits : \A j \in hits : i <= j].canonical

\* The text value with the given characters.
NameOf(cs) == CHOOSE s \in DOMAIN Spelling : Spelling[s] = cs

\* ------------------------------------------------- transaction tables

TxKinds == {"IN", "TRANSFER_OUT", "FINAL_OUT"}

\* The location strings of the tables, in the order pandas sorts them
\* (groupby and pivot_table sort their keys: plain string order).
LocationOrder ==
    <<"", "AGI", "DSV Indoor", "MOSB", "Shuttle Yard", "Storage", "UNKNOWN">>

\* The locations of the rows of the engine's tables.
Locations == {"", "DSV Indoor", "MOSB", "UNKNOWN"}

LocRank(loc) == CHOOSE i \in DOMAIN LocationOrder : LocationOrder[i] = loc

\* Which date column a table has.
DateCols == {"Date", "Billing month", "none"}

TxRows(locs, days, kinds, qtys) ==
    [Location : locs, Day : days, TxType_Refined : kinds, Qty : qtys]

\* A table: the date column it has and its rows; a row's Day is the value
\* of that date column (unused when the table has none).
TablesOf(cols, rowset, n) == [dateCol : cols, rows : SeqsUpTo(rowset, n)]

\* -------------------------------------------------- InventoryEngine

\* A variant of _prepare_data that stamps every row with now, whatever
\* columns the table has.
PrepareDataNowAlways(t, now) ==
    [dateCol |-> t.dateCol,
     rows |-> [i \in DOMAIN t.rows |->
                 [Location |-> t.rows[i].Location,
                  Day |-> t.rows[i].Day,
                  TxType_Refined |-> t.rows[i].TxType_Refined,
                  Qty |-> t.rows[i].Qty,
                  BillingMonth |-> now]]]

\* __init__ / _prepare_data: a missing 'Billing month' column is created
\* from pd.Timestamp.now() (no 'billing_month' column either).
PrepareData(t, now) ==
    [dateCol |-> t.dateCol,
     rows |-> [i \in DOMAIN t.rows |->
                 [Location |-> t.rows[i].Location,
                  Day |-> t.rows[i].Day,
                  TxType_Refined |-> t.rows[i].TxType_Refined,
                  Qty |-> t.rows[i].Qty,
                  BillingMonth |-> IF t.dateCol = "Billing month"
                                   THEN t.rows[i].Day ELSE now]]]

\* transaction_df['Date'] = to_datetime(get('Date', get('Billing month'))).dt.date
WithDate(p) ==
    [i \in DOMAIN p.rows |->
        [Location |-> p.rows[i].Location,
         Date |-> IF p.dateCol = "Date" THEN p.rows[i].Day
                  ELSE p.rows[i].BillingMonth,
         TxType_Refined |-> p.rows[i].TxType_Refined,
         Qty |-> p.rows[i].Qty]]

\* groupby(['Location','Date','TxType_Refined']).agg({'Qty': 'sum'}) followed
\* by pivot_table(..., fill_value=0): the cell of (loc, d) in column kind.
RECURSIVE PivotCell(_, _, _, _)
PivotCell(rows, loc, d, kind) ==
    IF rows = <<>> THEN 0
    ELSE (IF /\ Head(rows).Location = loc
             /\ Head(rows).Date = d
             /\ Head(rows).TxType_Refined = kind
          THEN Head(rows).Qty ELSE 0)
         + PivotCell(Tail(rows), loc, d, kind)

\* daily_pivot['Location'].unique(): the index is sorted, so in string order.
PivotLocations(rows) ==
    LET present == {rows[i].Location : i \in DOMAIN rows}
        ranks == SortedAsc({LocRank(l) : l \in present})
    IN [i \in DOMAIN ranks |-> LocationOrder[ranks[i]]]

\* The dates of loc_data.
PivotDates(rows, loc) ==
    {rows[i].Date : i \in {j \in DOMAIN rows : rows[j].Location = loc}}

\* A variant of the skip list without the blank name.
SkippedNoBlank == {"UNKNOWN", "UNK"}

\* for location in ...: if location in ['UNKNOWN', 'UNK', '']: continue
SkippedLocations == {"UNKNOWN", "UNK", ""}

\* A variant of the record whose closing stock leaves the final outbound
\* out.
StockRecordNoFinal(rows, loc, d, opening_stock) ==
    LET inbound == PivotCell(rows, loc, d, "IN")
        transfer_out == PivotCell(rows, loc, d, "TRANSFER_OUT")
        final_out == PivotCell(rows, loc, d, "FINAL_OUT")
        total_outbound == transfer_out + final_out
    IN [Location |-> loc, Date |-> d,
        Opening_Stock |-> opening_stock,
        Inbound |-> inbound,
        Transfer_Out |-> transfer_out,
        Final_Out |-> final_out,
        Total_Outbound |-> total_outbound,
        Closing_Stock |-> opening_stock + inbound - transfer_out]

\* One iteration of the walk: the record appended for row (loc, d).
StockRecord(rows, loc, d, opening_stock) ==
    LET inbound == PivotCell(rows, loc, d, "IN")
        transfer_out == PivotCell(rows, loc, d, "TRANSFER_OUT")
        final_out == PivotCell(rows, loc, d, "FINAL_OUT")
        total_outbound == transfer_out + final_out
        closing_stock == opening_stock + inbound - total_outbound
    IN [Location |-> loc, Date |-> d,
        Opening_Stock |-> opening_stock,
        Inbound |-> inbound,
        Transfer_Out |-> transfer_out,
        Final_Out |-> final_out,
        Total_Outbound |-> total_outbound,
        Closing_Stock |-> closing_stock]

\* for _, row in loc_data.iterrows(): ... opening_stock = closing_stock
RECURSIVE WalkLocation(_, _, _, _)
WalkLocation(rows, loc, dates, opening_stock) ==
    IF dates = <<>> THEN <<>>
    ELSE LET rec == StockRecord(rows, loc, Head(dates), opening_stock)
         IN <<rec>> \o WalkLocation(rows, loc, Tail(dates), rec.Closing_Stock)

\* A variant of the walk that takes the dates latest first.
LocationRecordsUnsorted(rows, loc) ==
    WalkLocation(rows, loc, SortedDesc(PivotDates(rows, loc)), 0)

\* A variant of the walk over every day from the first to the last date of
\* the location, as a reindexed frame would give.
LocationRecordsDense(rows, loc) ==
    LET ds == PivotDates(rows, loc)
        lo == CHOOSE x \in ds : \A y \in ds : x <= y
        hi == CHOOSE x \in ds : \A y \in ds : x >= y
    IN WalkLocation(rows, loc, SortedAsc(lo..hi), 0)

\* loc_data.sort_values('Date'), then the walk from opening_stock = 0.
LocationRecords(rows, loc) ==
    WalkLocation(rows, loc, SortedAsc(PivotDates(rows, loc)), 0)

\* A variant of calculate_daily_inventory whose opening stock is set to 0
\* once, before the first location, and carried from one location to the next.
RECURSIVE WalkLocationsCarried(_, _, _, _)
WalkLocationsCarried(rows, locs, skipped, opening_stock) ==
    IF locs = <<>> THEN <<>>
    ELSE IF Head(locs) \in skipped
    THEN WalkLocationsCarried(rows, Tail(locs), skipped, opening_stock)
    ELSE LET recs == WalkLocation(rows, Head(locs),
                                  SortedAsc(PivotDates(rows, Head(locs))),
                                  opening_stock)
         IN recs \o WalkLocationsCarried(rows, Tail(locs), skipped,
                                         recs[Len(recs)].Closing_Stock)

DailyInventoryCarried(rows, skipped) ==
    IF rows = <<>> THEN <<>>
    ELSE WalkLocationsCarried(rows, PivotLocations(rows), skipped, 0)

\* calculate_daily_inventory on the prepared frame.
DailyInventoryOfRows(rows, skipped) ==
    IF rows = <<>> THEN <<>>
    ELSE LET locs == PivotLocations(rows)
         IN Concat([i \in DOMAIN locs |->
                      IF locs[i] \in skipped THEN <<>>
                      ELSE LocationRecords(rows, locs[i])])

\* A variant of calculate_daily_inventory that keeps the blank location.
CalculateDailyInventoryKeepBlank(p) ==
    DailyInventoryOfRows(WithDate(p), SkippedNoBlank)

\* A variant of calculate_daily_inventory that also skips the site codes.
CalculateDailyInventorySkipSites(p) ==
    DailyInventoryOfRows(WithDate(p), SkippedLocations \cup {"AGI", "DAS", "MIR", "SHU"})

\* calculate_daily_inventory: the Date column, then the walk per location.
CalculateDailyInventory(p) ==
    DailyInventoryOfRows(WithDate(p), SkippedLocations)

\* InventoryEngine(df).calculate_daily_inventory() at wall-clock day now.
RunEngine(t, now) == CalculateDailyInventory(PrepareData(t, now))

\* validate_inventory_results: the pieces.

\* The tolerance of the comparison.
Tolerance == 2

\* A variant of the comparison that excludes the tolerance itself.
IsMatchStrict(actual_qty, expected_qty) ==
    Abs(actual_qty - expected_qty) < Tolerance

\* is_match = abs(actual_qty - expected_qty) <= 2
IsMatch(actual_qty, expected_qty) ==
    Abs(actual_qty - expected_qty) <= Tolerance

\* daily_stock.groupby('Location')['Closing_Stock'].last().get(location, 0):
\* the Closing_Stock of the last row of the location in frame order.
LatestStock(daily_stock, location) ==
    LET idx == {i \in DOMAIN daily_stock : daily_stock[i].Location = location}
    IN IF idx = {} THEN 0
       ELSE daily_stock[CHOOSE i \in idx : \A j \in idx : j <= i].Closing_Stock

SummaryEntry(daily_stock, exp, location) ==
    LET actual_qty == LatestStock(daily_stock, location)
    IN [expected |-> exp[location],
        actual |-> actual_qty,
        match |-> IsMatch(actual_qty, exp[location]),
        difference |-> actual_qty - exp[location]]

NoValidation == [kind |-> "none"]

\* validate_inventory_results(expected) on the frame t at wall-clock day now.
\* exp is a function from the expected locations to their quantities.
\* kind "error": the {'error': ...} return for an empty daily stock;
\* kind "raised": the ZeroDivisionError of the pass rate of an empty mapping.
ValidateInventoryResults(t, exp, now) ==
    LET daily_stock == RunEngine(t, now)
        summary == [l \in DOMAIN exp |-> SummaryEntry(daily_stock, exp, l)]
        matched == {l \in DOMAIN exp : summary[l].match}
    IN IF daily_stock = <<>> THEN [kind |-> "error"]
       ELSE IF DOMAIN exp = {} THEN [kind |-> "raised"]
       ELSE [kind |-> "ok",
             total_matches |-> Cardinality(matched),
             total_expected |-> Cardinality(DOMAIN exp),
             mismatches |-> {[location |-> l,
                              expected |-> summary[l].expected,
                              actual |-> summary[l].actual,
                              difference |-> summary[l].difference] :
                                l \in (DOMAIN exp) \ matched},
             summary |-> summary,
             pass_rate |-> [num |-> Cardinality(matched) * 100,
                            den |-> Cardinality(DOMAIN exp)]]

\* A field of a row is the set of its values: empty when the field is absent
\* or NaN, one value otherwise.
NoValue == {}

ValueOf(field) == CHOOSE v \in field : TRUE

\* ------------------------------------------------ transaction classifiers

\* any(keyword in text for keyword in keywords)
AnyIn(keywords, cs) ==
    \E k \in keywords : Contains(Spelling[k], cs)

\* The quantity columns classify_transaction_type_ontology reads, in order.
quantity_cols == <<"hasQuantity", "hasVolume_numeric", "hasVolume">>

\* The first quantity column that decides: a present, non-zero value.
SignOfFirst(r, cols) ==
    LET deciding == {i \in DOMAIN cols : r[cols[i]] # NoValue /\ r[cols[i]] # {0}}
    IN IF deciding = {} THEN 0
       ELSE LET q == ValueOf(r[cols[CHOOSE i \in deciding : \A j \in deciding : i <= j]])
            IN IF q > 0 THEN 1 ELSE -1

\* A variant of TypeIs: the word only has to occur in the transaction type.
TypeHas(tx, word) == Contains(Spelling[word], tx)

\* tx_type == 'IN', tx_type == 'OUT': the whole (upper-cased, stripped) value.
TypeIs(tx, word) == tx = Spelling[word]

\* classify_transaction_type_ontology(row)
ClassifyTransactionTypeOntology(r) ==
    LET tx == IF r.hasTransactionType = NoValue THEN <<>>
              ELSE Strip(Upper(Spelling[ValueOf(r.hasTransactionType)]))
        status == IF r.hasCurrentStatus = NoValue THEN <<>>
                  ELSE Strip(Upper(Spelling[ValueOf(r.hasCurrentStatus)]))
        sign == SignOfFirst(r, quantity_cols)
    IN IF r.hasTransactionType # NoValue
          /\ (TypeIs(tx, "IN") \/ Contains(Spelling["INBOUND"], tx)) THEN "IN"
       ELSE IF r.hasTransactionType # NoValue
          /\ (TypeIs(tx, "OUT") \/ Contains(Spelling["OUTBOUND"], tx)) THEN "OUT"
       ELSE IF r.hasTransactionType # NoValue
          /\ Contains(Spelling["TRANSFER"], tx) THEN "TRANSFER"
       ELSE IF r.hasCurrentStatus # NoValue
          /\ AnyIn({"IN", "RECEIVE", "ARRIVAL", "INBOUND"}, status) THEN "IN"
       ELSE IF r.hasCurrentStatus # NoValue
          /\ AnyIn({"OUT", "SHIP", "DELIVERY", "OUTBOUND"}, status) THEN "OUT"
       ELSE IF r.hasCurrentStatus # NoValue
          /\ Contains(Spelling["TRANSFER"], status) THEN "TRANSFER"
       ELSE IF sign > 0 THEN "IN"
       ELSE IF sign < 0 THEN "OUT"
       ELSE "IN"

\* A variant of the legacy classify_transaction_type with the ontology
\* classifier's default.
ClassifyTransactionTypeDefaultIn(r) ==
    ClassifyTransactionTypeOntology(
        [r EXCEPT !.hasTransactionType = NoValue, !.hasQuantity = NoValue,
                  !.hasVolume = NoValue])

\* classify_transaction_type(row) of the legacy flow analyzer
ClassifyTransactionType(r) ==
    LET tx == IF r.TxType_Refined = NoValue THEN <<>>
              ELSE Upper(Spelling[ValueOf(r.TxType_Refined)])
        status == IF r.hasCurrentStatus = NoValue THEN <<>>
                  ELSE Upper(Spelling[ValueOf(r.hasCurrentStatus)])
        sign == SignOfFirst(r, <<"hasVolume_numeric">>)
    IN IF r.TxType_Refined # NoValue /\ Contains(Spelling["IN"], tx) THEN "IN"
       ELSE IF r.TxType_Refined # NoValue /\ Contains(Spelling["OUT"], tx) THEN "OUT"
       ELSE IF r.TxType_Refined # NoValue /\ Contains(Spelling["TRANSFER"], tx)
            THEN "TRANSFER"
       ELSE IF r.hasCurrentStatus # NoValue
          /\ AnyIn({"IN", "RECEIVE", "ARRIVAL"}, status) THEN "IN"
       ELSE IF r.hasCurrentStatus # NoValue
          /\ AnyIn({"OUT", "SHIP", "DELIVERY"}, status) THEN "OUT"
       ELSE IF r.hasCurrentStatus # NoValue
          /\ Contains(Spelling["TRANSFER"], status) THEN "TRANSFER"
       ELSE IF sign > 0 THEN "IN"
       ELSE IF sign < 0 THEN "OUT"
       ELSE "UNKNOWN"

\* A row none of whose fields is present.
BareRow ==
    [hasTransactionType |-> NoValue, TxType_Refined |-> NoValue,
     hasCurrentStatus |-> NoValue, hasQuantity |-> NoValue,
     hasVolume_numeric |-> NoValue, hasVolume |-> NoValue]

\* No classifier has been handed a row.
IdleClass ==
    /\ row = BareRow
    /\ tx_type = "none"

\* The legacy flow analysis has not run.
IdleFlow ==
    /\ flow_df = <<>>
    /\ all_months = {}
    /\ monthly_flow = <<>>

\* ------------------------------------------------------------ DataLoader

\* DataLoader.warehouse_mapping, in declaration order.
warehouse_mapping ==
    << [canonical |-> "DSV Al Markaz",
        patterns |-> <<"markaz", "m1", "al markaz", "almarkaz", "al_markaz">>],
       [canonical |-> "DSV Indoor",
        patterns |-> <<"indoor", "m44", "hauler indoor", "hauler_indoor">>],
       [canonical |-> "DSV Outdoor", patterns |-> <<"outdoor", "out">>],
       [canonical |-> "MOSB", patterns |-> <<"mosb">>],
       [canonical |-> "DSV MZP", patterns |-> <<"mzp">>],
       [canonical |-> "DHL WH", patterns |-> <<"dhl">>],
       [canonical |-> "AAA Storage", patterns |-> <<"aaa">>] >>

\* The rules of DataLoader._normalize_warehouse_name, in declaration order.
warehouse_rules ==
    << [canonical |-> "DSV Al Markaz",
        patterns |-> <<"markaz", "m1", "al markaz", "almarkaz", "al_markaz",
                       "dsv al markaz">>],
       [canonical |-> "DSV Indoor",
        patterns |-> <<"indoor", "m44", "hauler indoor", "hauler_indoor",
                       "dsv indoor">>],
       [canonical |-> "DSV Outdoor", patterns |-> <<"outdoor", "out", "dsv outdoor">>],
       [canonical |-> "MOSB", patterns |-> <<"mosb">>],
       [canonical |-> "DSV MZP", patterns |-> <<"mzp", "dsv mzp">>],
       [canonical |-> "DHL WH", patterns |-> <<"dhl", "dhl wh">>],
       [canonical |-> "AAA Storage", patterns |-> <<"aaa", "aaa storage">>],
       [canonical |-> "Storage", patterns |-> <<"storage", "U+CC3D U+ACE0">>],
       [canonical |-> "Site", patterns |-> <<"site", "U+C0AC U+C774 U+D2B8">>] >>

date_keywords ==
    <<"eta", "etd", "ata", "atd", "date", "time", "arrival", "departure">>

\* for keyword in date_keywords: col_lower = col_lower.replace(keyword, '').strip()
RECURSIVE RemoveKeywords(_, _)
RemoveKeywords(cs, keywords) ==
    IF keywords = <<>> THEN cs
    ELSE RemoveKeywords(Strip(Remove(cs, Spelling[Head(keywords)])), Tail(keywords))

\* DataLoader._extract_warehouse_from_column(col_name)
ExtractWarehouseFromColumn(col_name) ==
    FirstMatch(warehouse_mapping,
               RemoveKeywords(Strip(Lower(Spelling[col_name])), date_keywords),
               "UNKNOWN")

\* DataLoader._normalize_warehouse_name(raw_name): a name no rule matches is
\* returned as it is, stripped.
LoaderNormalizeWarehouseName(raw_name) ==
    IF raw_name = "" THEN "UNKNOWN"
    ELSE FirstMatch(warehouse_rules, Strip(Lower(Spelling[raw_name])),
                    NameOf(Strip(Spelling[raw_name])))

\* status_info.get(kind): the stripped value is there and not empty.
HasStatus(field) ==
    field # NoValue /\ Strip(Spelling[ValueOf(field)]) # <<>>

\* A variant of _extract_status_info that consults the warehouse status
\* first, then the current, then the location status.
CurrentLocationWarehouseFirst(r) ==
    IF HasStatus(r.status_warehouse)
    THEN {LoaderNormalizeWarehouseName(NameOf(Strip(Spelling[ValueOf(r.status_warehouse)])))}
    ELSE IF HasStatus(r.status_current)
    THEN {LoaderNormalizeWarehouseName(NameOf(Strip(Spelling[ValueOf(r.status_current)])))}
    ELSE IF HasStatus(r.status_location)
    THEN {LoaderNormalizeWarehouseName(NameOf(Strip(Spelling[ValueOf(r.status_location)])))}
    ELSE {}

\* status_info['current_location'] of DataLoader._extract_status_info: the
\* location, else the current, else the warehouse status; empty when none.
CurrentLocation(r) ==
    IF HasStatus(r.status_location)
    THEN {LoaderNormalizeWarehouseName(NameOf(Strip(Spelling[ValueOf(r.status_location)])))}
    ELSE IF HasStatus(r.status_current)
    THEN {LoaderNormalizeWarehouseName(NameOf(Strip(Spelling[ValueOf(r.status_current)])))}
    ELSE IF HasStatus(r.status_warehouse)
    THEN {LoaderNormalizeWarehouseName(NameOf(Strip(Spelling[ValueOf(r.status_warehouse)])))}
    ELSE {}

\* The headers of the sheet's date columns, in column order.
Headers == <<"DSV Indoor", "Hauler Indoor", "MOSB ETA">>

\* DataLoader._find_date_columns on a sheet of one row: the columns whose
\* header names a warehouse and whose cell holds a date.
FindDateColumns(r) ==
    SelectSeq(Headers,
              LAMBDA h : ExtractWarehouseFromColumn(h) # "UNKNOWN" /\ r.cells[h] # NoValue)

\* DataLoader._normalize_quantities on a sheet of one row: a missing or zero
\* quantity becomes 1.
NormalizeQuantity(qty) ==
    IF qty = NoValue \/ qty = {0} THEN 1 ELSE ValueOf(qty)

\* The case_events of a row before the sort.
RowEvents(r) ==
    LET date_cols == FindDateColumns(r)
        current == CurrentLocation(r)
        event(h) == [case_id |-> r.case,
                     date |-> ValueOf(r.cells[h]),
                     warehouse |-> IF current # {} THEN ValueOf(current)
                                   ELSE ExtractWarehouseFromColumn(h),
                     quantity |-> NormalizeQuantity(r.qty),
                     source_column |-> h]
    IN SelectSeq([i \in DOMAIN date_cols |-> event(date_cols[i])],
                 LAMBDA e : e.warehouse # "UNKNOWN")

\* case_events.sort(key=lambda x: x['date']): stable.
RECURSIVE SortByDate(_)
SortByDate(events) ==
    IF events = <<>> THEN <<>>
    ELSE LET sorted == SortByDate(SubSeq(events, 1, Len(events) - 1))
             e == events[Len(events)]
             k == Cardinality({i \in DOMAIN sorted : sorted[i].date <= e.date})
         IN SubSeq(sorted, 1, k) \o <<e>> \o SubSeq(sorted, k + 1, Len(sorted))

SourceFile == "HVDC WAREHOUSE_HITACHI(HE).xlsx"

\* incoming_tx: the arrival of an event.
IncomingTx(event) ==
    [source_file |-> SourceFile, case |-> event.case_id, date |-> event.date,
     warehouse |-> event.warehouse, incoming |-> event.quantity, outgoing |-> 0]

\* A variant of OutgoingTx: the departure is booked at the location of the
\* event itself.
OutgoingTxHere(event, prev_warehouse) ==
    [source_file |-> SourceFile, case |-> event.case_id, date |-> event.date,
     warehouse |-> event.warehouse, incoming |-> 0, outgoing |-> event.quantity]

\* outgoing_tx: the departure from the location of the event before.
OutgoingTx(event, prev_warehouse) ==
    [source_file |-> SourceFile, case |-> event.case_id, date |-> event.date,
     warehouse |-> prev_warehouse, incoming |-> 0, outgoing |-> event.quantity]

\* The loop that turns the sorted events of a case into transactions: an
\* arrival per event and, from the second event on, a departure from the
\* location of the event before.
EventsToTransactions(events) ==
    Concat([i \in DOMAIN events |->
              <<IncomingTx(events[i])>> \o
              (IF i > 1 THEN <<OutgoingTx(events[i], events[i - 1].warehouse)>>
               ELSE <<>>)])

\* DataLoader._extract_file_transactions on a sheet of one row.
ExtractFileTransactions(r) ==
    EventsToTransactions(SortByDate(RowEvents(r)))

\* ------------------------------------------- transactions_to_dataframe

\* The rules of normalize_warehouse_name of the reporter script.
reporter_rules ==
    << [canonical |-> "DSV Al Markaz",
        patterns |-> <<"markaz", "m1", "al markaz", "almarkaz">>],
       [canonical |-> "DSV Indoor", patterns |-> <<"indoor", "m44", "hauler indoor">>],
       [canonical |-> "DSV Outdoor", patterns |-> <<"outdoor", "out">>],
       [canonical |-> "MOSB", patterns |-> <<"mosb">>],
       [canonical |-> "DSV MZP", patterns |-> <<"mzp">>],
       [canonical |-> "DHL WH", patterns |-> <<"dhl">>],
       [canonical |-> "AAA Storage", patterns |-> <<"aaa">>] >>

\* normalize_warehouse_name(raw_name)
NormalizeWarehouseName(raw_name) ==
    IF raw_name = "" THEN "UNKNOWN"
    ELSE FirstMatch(reporter_rules, Strip(Lower(Spelling[raw_name])),
                    NameOf(Strip(Spelling[raw_name])))

\* extract_warehouse(data): the transaction's 'warehouse' field.
ExtractWarehouse(tx) ==
    IF Strip(Spelling[tx.warehouse]) = <<>> THEN "UNKNOWN"
    ELSE NormalizeWarehouseName(NameOf(Strip(Spelling[tx.warehouse])))

site_patterns ==
    << [canonical |-> "AGI", patterns |-> <<"AGI">>],
       [canonical |-> "DAS", patterns |-> <<"DAS">>],
       [canonical |-> "MIR", patterns |-> <<"MIR">>],
       [canonical |-> "SHU", patterns |-> <<"SHU">>] >>

\* A variant of extract_site: the name has to be the site code itself.
ExtractSiteExact(warehouse_name) ==
    IF warehouse_name \in {"AGI", "DAS", "MIR", "SHU"} THEN warehouse_name ELSE "UNK"

\* extract_site(warehouse_name)
ExtractSite(warehouse_name) ==
    FirstMatch(site_patterns, Upper(Spelling[warehouse_name]), "UNK")

\* A variant of the kind that takes every departure for a final one.
OutKindAlwaysFinal(warehouse) == "FINAL_OUT"

\* The kind of the OUT row of a transaction at `warehouse`, the location the
\* case leaves.
OutKind(warehouse) ==
    IF ExtractSite(warehouse) \in {"AGI", "DAS", "MIR", "SHU"} THEN "FINAL_OUT"
    ELSE "TRANSFER_OUT"

InRecord(tx) ==
    [Case_No |-> tx.case, Date |-> tx.date, Location |-> ExtractWarehouse(tx),
     Source_File |-> tx.source_file, Loc_From |-> "SOURCE",
     Target_Warehouse |-> ExtractWarehouse(tx),
     TxType_Refined |-> "IN", Qty |-> tx.incoming]

OutRecord(tx) ==
    [Case_No |-> tx.case, Date |-> tx.date, Location |-> ExtractWarehouse(tx),
     Source_File |-> tx.source_file, Loc_From |-> ExtractWarehouse(tx),
     Target_Warehouse |-> "DESTINATION",
     TxType_Refined |-> OutKind(ExtractWarehouse(tx)), Qty |-> tx.outgoing]

\* transactions_to_dataframe(transactions)
TransactionsToDataframe(txs) ==
    Concat([i \in DOMAIN txs |->
              (IF txs[i].incoming > 0 THEN <<InRecord(txs[i])>> ELSE <<>>) \o
              (IF txs[i].outgoing > 0 THEN <<OutRecord(txs[i])>> ELSE <<>>)])

\* --------------------------------------------------- DeduplicationEngine

\* reconcile_orphan_transfers(df): returns the table it was given.
ReconcileOrphanTransfers(rows) == rows

\* df.drop_duplicates(): the first of equal rows stays.
RECURSIVE DropDuplicates(_)
DropDuplicates(rows) ==
    IF rows = <<>> THEN <<>>
    ELSE LET init == DropDuplicates(SubSeq(rows, 1, Len(rows) - 1))
             last == rows[Len(rows)]
         IN IF \E i \in DOMAIN init : init[i] = last THEN init
            ELSE Append(init, last)

\* A variant of drop_duplicate_transfers: rows that differ in the quantity
\* only count as duplicates.
RECURSIVE DropDuplicatesIgnoringQty(_)
DropDuplicatesIgnoringQty(rows) ==
    IF rows = <<>> THEN <<>>
    ELSE LET init == DropDuplicatesIgnoringQty(SubSeq(rows, 1, Len(rows) - 1))
             last == rows[Len(rows)]
         IN IF \E i \in DOMAIN init : [init[i] EXCEPT !.Qty = last.Qty] = last
            THEN init
            ELSE Append(init, last)

\* drop_duplicate_transfers(df)
DropDuplicateTransfers(rows) == DropDuplicates(rows)

\* The transaction table as the engine's input: it has a Date column.
AsEngineTable(rows) ==
    [dateCol |-> "Date",
     rows |-> [i \in DOMAIN rows |->
                 [Location |-> rows[i].Location, Day |-> rows[i].Date,
                  TxType_Refined |-> rows[i].TxType_Refined, Qty |-> rows[i].Qty]]]

\* ------------------------------- reporter script: per-transaction walk

\* transaction_df.sort_values(['Location', 'Date']) within one location: the
\* rows by date, rows of the same date in frame order.
RECURSIVE SortByDay(_)
SortByDay(rows) ==
    IF rows = <<>> THEN <<>>
    ELSE LET sorted == SortByDay(SubSeq(rows, 1, Len(rows) - 1))
             r == rows[Len(rows)]
             k == Cardinality({i \in DOMAIN sorted : sorted[i].Day <= r.Day})
         IN SubSeq(sorted, 1, k) \o <<r>> \o SubSeq(sorted, k + 1, Len(sorted))

\* A variant of the record of one transaction in which a FINAL_OUT leaves the
\* current stock as it is.
TxRecordFinalKept(r, current_stock) ==
    LET inbound == IF r.TxType_Refined = "IN" THEN r.Qty ELSE 0
        transfer_out == IF r.TxType_Refined = "TRANSFER_OUT" THEN r.Qty ELSE 0
        final_out == IF r.TxType_Refined = "FINAL_OUT" THEN r.Qty ELSE 0
    IN [Location |-> r.Location, Date |-> r.Day,
        Opening_Stock |-> current_stock,
        Inbound |-> inbound,
        Transfer_Out |-> transfer_out,
        Final_Out |-> final_out,
        Total_Outbound |-> transfer_out + final_out,
        Closing_Stock |-> current_stock + inbound - transfer_out]

\* The record of one transaction: IN adds its quantity to the current stock,
\* TRANSFER_OUT and FINAL_OUT take it off, any other kind changes nothing.
TxRecord(r, current_stock) ==
    LET inbound == IF r.TxType_Refined = "IN" THEN r.Qty ELSE 0
        transfer_out == IF r.TxType_Refined = "TRANSFER_OUT" THEN r.Qty ELSE 0
        final_out == IF r.TxType_Refined = "FINAL_OUT" THEN r.Qty ELSE 0
    IN [Location |-> r.Location, Date |-> r.Day,
        Opening_Stock |-> current_stock,
        Inbound |-> inbound,
        Transfer_Out |-> transfer_out,
        Final_Out |-> final_out,
        Total_Outbound |-> transfer_out + final_out,
        Closing_Stock |-> current_stock + inbound - transfer_out - final_out]

\* for _, row in location_df.iterrows(): one record per transaction.
RECURSIVE WalkTransactions(_, _)
WalkTransactions(rows, current_stock) ==
    IF rows = <<>> THEN <<>>
    ELSE LET rec == TxRecord(Head(rows), current_stock)
         IN <<rec>> \o WalkTransactions(Tail(rows), rec.Closing_Stock)

\* calculate_daily_inventory(transaction_df) of the reporter script: every
\* location of the table in sorted order, none skipped, each from stock 0.
ReporterDailyInventory(rows) ==
    IF rows = <<>> THEN <<>>
    ELSE LET locs == PivotLocations(rows)
         IN Concat([i \in DOMAIN locs |->
                      WalkTransactions(
                          SortByDay(SelectSeq(rows, LAMBDA r : r.Location = locs[i])),
                          0)])

\* ------------------------------------------------- legacy flow analyzer

\* warehouse_mapping of the legacy normalize_warehouse_name, in declaration
\* order.
legacy_warehouse_mapping ==
    << [canonical |-> "DSV INDOOR",
        patterns |-> <<"DSV INDOOR", "DSV_INDOOR", "INDOOR", "M44",
                       "DSV INDOOR WAREHOUSE", "INDOOR WH">>],
       [canonical |-> "DSV OUTDOOR",
        patterns |-> <<"DSV OUTDOOR", "DSV_OUTDOOR", "OUTDOOR",
                       "DSV OUTDOOR WAREHOUSE", "OUTDOOR WH">>],
       [canonical |-> "DSV AL MARKAZ",
        patterns |-> <<"DSV AL MARKAZ", "DSV_AL_MARKAZ", "MARKAZ", "M1",
                       "AL MARKAZ", "DSV MARKAZ">>],
       [canonical |-> "DAS", patterns |-> <<"DAS", "D.A.S", "D A S">>],
       [canonical |-> "MOSB", patterns |-> <<"MOSB", "M.O.S.B", "M O S B">>] >>

legacy_site_patterns ==
    {"AGI", "MIR", "SHU", "SITE", "PROJECT", "FIELD", "CONSTRUCTION", "PLANT",
     "STATION"}

legacy_warehouse_patterns ==
    {"DSV", "DAS", "MOSB", "WAREHOUSE", "WH", "INDOOR", "OUTDOOR", "MARKAZ"}

\* normalize_warehouse_name(name) of the legacy flow analyzer: the empty
\* name for a site.
LegacyNormalizeWarehouseName(name) ==
    IF name = "" THEN ""
    ELSE LET n == Upper(Strip(Spelling[name]))
         IN FirstMatch(legacy_warehouse_mapping, n,
                       IF AnyIn(legacy_site_patterns, n) THEN "" ELSE NameOf(n))

\* classify_location_type(name)
ClassifyLocationType(name) ==
    IF name = "" THEN "UNKNOWN"
    ELSE LET n == Upper(Strip(Spelling[name]))
         IN IF AnyIn(legacy_warehouse_patterns, n) THEN "WAREHOUSE"
            ELSE IF AnyIn(legacy_site_patterns, n) THEN "SITE"
            ELSE "UNKNOWN"

\* The values of hasSite in the input rows.
SiteNames == {"DSV Indoor", "MOSB", "AGI"}

\* df_work['hasSite'].apply(normalize_warehouse_name)
Warehouse_Normalized ==
    [name \in SiteNames |-> LegacyNormalizeWarehouseName(name)]

\* df_work['hasSite'].apply(classify_location_type)
Location_Type ==
    [name \in SiteNames |-> ClassifyLocationType(name)]

\* A row of warehouse_df: the columns the function adds to the input row.
WarehouseRow(r) ==
    LET kind == ClassifyTransactionType(r)
        volume == ValueOf(r.hasVolume_numeric)
    IN [Warehouse_Normalized |-> Warehouse_Normalized[r.hasSite],
        Location_Type |-> Location_Type[r.hasSite],
        Month |-> r.hasDate,
        InQty |-> IF kind = "IN" THEN volume ELSE 0,
        OutQty |-> IF kind = "OUT" THEN Abs(volume) ELSE 0,
        TransferQty |-> IF kind = "TRANSFER" THEN volume ELSE 0,
        hasAmount_numeric |-> r.hasAmount_numeric]

\* The rows at warehouses.
WarehouseDf(rows) ==
    SelectSeq([i \in DOMAIN rows |-> WarehouseRow(rows[i])],
              LAMBDA w : w.Location_Type = "WAREHOUSE" /\ w.Warehouse_Normalized # "")

\* groupby(['Warehouse_Normalized', 'Month']).agg(sum) of one column
RECURSIVE GroupSum(_, _, _, _)
GroupSum(wrows, warehouse, month, column) ==
    IF wrows = <<>> THEN 0
    ELSE (IF Head(wrows).Warehouse_Normalized = warehouse /\ Head(wrows).Month = month
          THEN Head(wrows)[column] ELSE 0)
         + GroupSum(Tail(wrows), warehouse, month, column)

GroupKeys(wrows) ==
    {<<wrows[i].Warehouse_Normalized, wrows[i].Month>> : i \in DOMAIN wrows}

NetFlow(wrows, warehouse, month) ==
    GroupSum(wrows, warehouse, month, "InQty")
    - GroupSum(wrows, warehouse, month, "OutQty")
    + GroupSum(wrows, warehouse, month, "TransferQty")

\* groupby(level=0)['Net_Flow'].cumsum() at the group of the month: the net
\* flows of the warehouse's groups up to it.
RECURSIVE CumulativeStock(_, _, _)
CumulativeStock(wrows, warehouse, month) ==
    IF month = 0 THEN 0
    ELSE CumulativeStock(wrows, warehouse, month - 1) + NetFlow(wrows, warehouse, month)

GroupRow(wrows, warehouse, month) ==
    [InQty |-> GroupSum(wrows, warehouse, month, "InQty"),
     OutQty |-> GroupSum(wrows, warehouse, month, "OutQty"),
     TransferQty |-> GroupSum(wrows, warehouse, month, "TransferQty"),
     hasAmount_numeric |-> GroupSum(wrows, warehouse, month, "hasAmount_numeric"),
     Net_Flow |-> NetFlow(wrows, warehouse, month),
     Cumulative_Stock |-> CumulativeStock(wrows, warehouse, month)]

\* The row reindex(multi_index, fill_value=0) gives a pair without a group.
FilledRow ==
    [InQty |-> 0, OutQty |-> 0, TransferQty |-> 0, hasAmount_numeric |-> 0,
     Net_Flow |-> 0, Cumulative_Stock |-> 0]

\* create_dummy_warehouse_flow(all_months): rows of random quantities.
DummyFlow == [kind |-> "dummy"]

\* create_warehouse_monthly_flow(df, all_months)
CreateWarehouseMonthlyFlow(rows, months) ==
    LET wrows == WarehouseDf(rows)
        warehouse_list == {wrows[i].Warehouse_Normalized : i \in DOMAIN wrows}
    IN IF wrows = <<>> THEN DummyFlow
       ELSE [kind |-> "flow",
             warehouses |-> warehouse_list,
             rows |-> [key \in warehouse_list \X months |->
                         IF key \in GroupKeys(wrows)
                         THEN GroupRow(wrows, key[1], key[2])
                         ELSE FilledRow]]

\* ------------------------------------------------------- location groups

INDOOR_WAREHOUSE == <<"DSV Indoor", "DSV Al Markaz", "Hauler Indoor">>

OUTDOOR_WAREHOUSE == <<"DSV Outdoor", "DSV MZP", "MOSB">>

SITE == <<"AGI", "DAS", "MIR", "SHU">>

DANGEROUS_CARGO == <<"AAA Storage", "Dangerous Storage">>

\* A variant of the lookup that accepts a name containing a listed one.
InListBySubstring(cs, list) ==
    \E i \in DOMAIN list : Contains(Spelling[list[i]], cs)

\* n in LIST: the characters of n are those of a listed name.
InList(cs, list) ==
    \E i \in DOMAIN list : Spelling[list[i]] = cs

\* get_location_group(name), and its copy get_location_group_ontology of
\* the invoice reporter; name is a field (empty when missing or NaN).
GetLocationGroup(name) ==
    IF name = NoValue THEN "UNKNOWN"
    ELSE LET n == Strip(Spelling[ValueOf(name)])
         IN IF InList(n, INDOOR_WAREHOUSE) THEN "IndoorWarehouse"
            ELSE IF InList(n, OUTDOOR_WAREHOUSE) THEN "OutdoorWarehouse"
            ELSE IF InList(n, SITE) THEN "Site"
            ELSE IF InList(n, DANGEROUS_CARGO) THEN "DangerousCargoWarehouse"
            ELSE "UNKNOWN"

\* DataLoader._normalize_warehouse_name on a field: 'UNKNOWN' for a missing
\* value.
NormalizeStatusName(name) ==
    IF name = NoValue THEN "UNKNOWN"
    ELSE LoaderNormalizeWarehouseName(ValueOf(name))

\* DataLoader._extract_warehouse_from_column on a header: str(col_name) of
\* a missing header is 'nan'.
ExtractHeaderName(name) ==
    IF name = NoValue THEN ExtractWarehouseFromColumn("nan")
    ELSE ExtractWarehouseFromColumn(ValueOf(name))

\* No name has been handed over.
IdleAux ==
    /\ names = <<>>
    /\ results = <<>>

\* ------------------------------------------------- 8-sheet monthly reporter

\* .dt.to_period("M"): the month of a date; a month has two days here.
ToPeriodM(date) == ((date - 1) \div 2) + 1

\* pd.period_range(lo, hi, freq='M').
PeriodRange(lo, hi) == [i \in 1..(hi - lo + 1) |-> lo + i - 1]

\* pd.to_numeric(column, errors='coerce').fillna(0) for one cell.
ToNumericFillZero(field) == IF field = NoValue THEN 0 ELSE ValueOf(field)

\* Series.min() and Series.max().
MinOf(S) == CHOOSE x \in S : \A y \in S : x <= y

MaxOf(S) == CHOOSE x \in S : \A y \in S : x >= y

\* prepare_monthly_aggregation: the frame with its new columns.
PreparedRow(r) ==
    [hasSite |-> r.hasSite, hasDate |-> r.hasDate, hasAmount |-> r.hasAmount,
     hasVolume |-> r.hasVolume, hasShipmentNo |-> r.hasShipmentNo,
     BillingMonth |-> ToPeriodM(r.hasDate),
     hasAmount_numeric |-> ToNumericFillZero(r.hasAmount),
     hasVolume_numeric |-> ToNumericFillZero(r.hasVolume)]

PreparedDf(rows) == [i \in DOMAIN rows |-> PreparedRow(rows[i])]

\* prepare_monthly_aggregation: the range of months of the frame.
AllMonthsOf(rows) ==
    LET billing == {ToPeriodM(rows[i].hasDate) : i \in DOMAIN rows}
    IN  PeriodRange(MinOf(billing), MaxOf(billing))

\* The rows of one month (df['month'] is to_period("M") of hasDate again).
RowsOfMonth(rows, month) ==
    {i \in DOMAIN rows : ToPeriodM(rows[i].hasDate) = month}

\* The group keys of a groupby('month') over the rows idx.
MonthsOfRows(rows, idx) == {ToPeriodM(rows[i].hasDate) : i \in idx}

\* The 'sum' aggregate of a column over the rows idx.
RECURSIVE SumOver(_, _, _)
SumOver(rows, idx, column) ==
    IF idx = {} THEN 0
    ELSE LET i == CHOOSE j \in idx : TRUE
         IN  rows[i][column] + SumOver(rows, idx \ {i}, column)

\* mean(...).round(2), in hundredths.
RoundedMean(sum, count) == ((200 * sum) + count) \div (2 * count)

\* frame.reindex(labels, fill_value=fill) along a plain (one-level) axis:
\* exactly the labels asked for, the missing ones filled.
ReindexFill(frame, labels, fill) ==
    [m \in {labels[i] : i \in DOMAIN labels} |->
        IF m \in DOMAIN frame THEN frame[m] ELSE fill]

\* frame.reindex(columns=labels, level=1, fill_value=fill) along a two-level
\* axis: the labels are matched against the level's values, and the entries
\* of the axis whose value matches are kept; a label the level does not have
\* yields no entry.
ReindexLevel(frame, labels, fill) ==
    [m \in {labels[i] : i \in DOMAIN labels} \cap DOMAIN frame |-> frame[m]]

\* df['month'] = pd.to_datetime(df['hasDate']).dt.to_period("M"), in place.
WithMonth(rows) ==
    [i \in DOMAIN rows |->
        [hasSite |-> rows[i].hasSite, hasDate |-> rows[i].hasDate,
         hasAmount |-> rows[i].hasAmount, hasVolume |-> rows[i].hasVolume,
         hasShipmentNo |-> rows[i].hasShipmentNo,
         BillingMonth |-> rows[i].BillingMonth,
         hasAmount_numeric |-> rows[i].hasAmount_numeric,
         hasVolume_numeric |-> rows[i].hasVolume_numeric,
         month |-> ToPeriodM(rows[i].hasDate)]]

\* A line of the dashboard filled by fill_value=0.
ZeroKpi ==
    [count |-> 0, amount_sum |-> 0, amount_mean |-> 0, volume_sum |-> 0,
     volume_mean |-> 0, sites |-> 0, shipments |-> 0]

\* create_monthly_dashboard: groupby('month').agg(...).round(2), reindexed.
MonthlyKpi(rows, idx) ==
    [count |-> Cardinality(idx),
     amount_sum |-> SumOver(rows, idx, "hasAmount_numeric"),
     amount_mean |->
        RoundedMean(SumOver(rows, idx, "hasAmount_numeric"), Cardinality(idx)),
     volume_sum |-> SumOver(rows, idx, "hasVolume_numeric"),
     volume_mean |->
        RoundedMean(SumOver(rows, idx, "hasVolume_numeric"), Cardinality(idx)),
     sites |-> Cardinality({rows[i].hasSite : i \in idx}),
     shipments |-> Cardinality({rows[i].hasShipmentNo : i \in idx})]

CreateMonthlyDashboard(rows, months) ==
    LET grouped == [m \in MonthsOfRows(rows, DOMAIN rows) |->
                        MonthlyKpi(rows, RowsOfMonth(rows, m))]
    IN  ReindexFill(grouped, months, ZeroKpi)

\* pivot_table(index='hasSite', columns='month', values=column, aggfunc='sum',
\* fill_value=0): one line per site, one column per month that has data.
PivotSum(rows, column) ==
    [site \in {rows[i].hasSite : i \in DOMAIN rows} |->
        [m \in MonthsOfRows(rows, DOMAIN rows) |->
            SumOver(rows, {i \in RowsOfMonth(rows, m) : rows[i].hasSite = site},
                    column)]]

\* The same pivot with aggfunc='count'.
PivotCount(rows) ==
    [site \in {rows[i].hasSite : i \in DOMAIN rows} |->
        [m \in MonthsOfRows(rows, DOMAIN rows) |->
            Cardinality({i \in RowsOfMonth(rows, m) : rows[i].hasSite = site})]]

\* supplier_pivot.sum(axis=1) for one line.
RECURSIVE SumLine(_, _)
SumLine(line, labels) ==
    IF labels = {} THEN 0
    ELSE LET m == CHOOSE x \in labels : TRUE
         IN  line[m] + SumLine(line, labels \ {m})

\* create_supplier_report: the pivot of the amounts, its columns reindexed,
\* then the total and the monthly mean (in hundredths) of each line.
CreateSupplierReport(rows, months) ==
    LET pivot == PivotSum(rows, "hasAmount_numeric")
        line(site) == ReindexFill(pivot[site], months, 0)
        total(site) == SumLine(line(site), DOMAIN line(site))
    IN  [site \in DOMAIN pivot |->
            [month |-> line(site),
             total |-> total(site),
             monthly_mean |-> RoundedMean(total(site), Len(months))]]

\* create_site_report: the pivot of the volumes with aggfunc=['sum','count']
\* has two-level columns (aggregate, month) and is reindexed on level 1; an
\* empty pivot is replaced by a dummy frame over all months.
CreateSiteReport(rows, months) ==
    LET sums == PivotSum(rows, "hasVolume_numeric")
        counts == PivotCount(rows)
    IN  IF DOMAIN sums # {}
        THEN [site \in DOMAIN sums |->
                [sum |-> ReindexLevel(sums[site], months, 0),
                 count |-> ReindexLevel(counts[site], months, 0)]]
        ELSE [site \in {"Site1", "Site2"} |->
                [sum |-> ReindexFill(<<>>, months, 0),
                 count |-> ReindexFill(<<>>, months, 0)]]

\* A line of the inbound sheet filled by fill_value=0.
ZeroInbound == [count |-> 0, amount_sum |-> 0, volume_sum |-> 0]

\* create_inbound_report: the rows with a positive amount, grouped by month.
CreateInboundReport(rows, months) ==
    LET inbound == {i \in DOMAIN rows : rows[i].hasAmount_numeric > 0}
        grouped ==
            [m \in MonthsOfRows(rows, inbound) |->
                LET idx == inbound \cap RowsOfMonth(rows, m)
                IN  [count |-> Cardinality(idx),
                     amount_sum |-> SumOver(rows, idx, "hasAmount_numeric"),
                     volume_sum |-> SumOver(rows, idx, "hasVolume_numeric")]]
    IN  ReindexFill(grouped, months, ZeroInbound)

\* ------------------------------------------ DataLoader: a batch of files

\* The patterns of DataLoader._find_case_column, in order.
case_patterns ==
    <<"case", "carton", "box", "mr#", "mr #", "sct ship no", "case no">>

\* Whether a header names a case column: a pattern occurs in
\* str(col).lower().strip().
IsCaseHeader ==
    [col \in {"Case No.", "Item", "Remarks"} |->
        \E k \in DOMAIN case_patterns :
            Contains(Spelling[case_patterns[k]], Strip(Lower(Spelling[col])))]

\* DataLoader._find_case_column: the first column a pattern occurs in.
FindCaseColumn(columns) ==
    LET hits == {i \in DOMAIN columns : IsCaseHeader[columns[i]]}
    IN  IF hits = {} THEN NoValue
        ELSE {columns[CHOOSE i \in hits : \A j \in hits : i <= j]}

\* The transactions of a file carry its name.
FromFile(txs, filename) ==
    [i \in DOMAIN txs |-> [txs[i] EXCEPT !.source_file = filename]]

\* DataLoader._extract_file_transactions(df, filename) on a sheet of at most
\* one row: nothing for an empty sheet, for a sheet without a case column and
\* for one without date columns.  The call raises when the sort of the events
\* has to compare a date with a time zone to one without (TypeError).
ExtractFile(file, filename) ==
    IF file.row = NoValue
    THEN [raised |-> FALSE, transactions |-> <<>>]
    ELSE LET r == ValueOf(file.row)
         IN  IF FindCaseColumn(file.columns) = NoValue
             THEN [raised |-> FALSE, transactions |-> <<>>]
             ELSE IF FindDateColumns(r) = <<>>
             THEN [raised |-> FALSE, transactions |-> <<>>]
             ELSE IF file.mixed_timezones /\ Len(RowEvents(r)) > 1
             THEN [raised |-> TRUE, transactions |-> <<>>]
             ELSE [raised |-> FALSE,
                   transactions |-> FromFile(ExtractFileTransactions(r), filename)]

\* A variant of TryFile: the exception of a file is not caught.
TryFileUncaught(result) == result

\* try: ... except Exception: logger.error(...) around one file: a raise
\* leaves all_transactions as it was.
TryFile(result) ==
    IF result.raised THEN [raised |-> FALSE, transactions |-> <<>>] ELSE result

\* The keys of the excel_files dict, in insertion order.
FileNames == <<"A.xlsx", "B.xlsx", "C.xlsx">>

\* DataLoader.extract_transactions(excel_files): what it returns, or that it
\* raised.
ExtractTransactions(files) ==
    LET outcome == [i \in DOMAIN files |-> TryFile(ExtractFile(files[i], FileNames[i]))]
    IN  IF \E i \in DOMAIN files : outcome[i].raised
        THEN [raised |-> TRUE, transactions |-> <<>>]
        ELSE [raised |-> FALSE,
              transactions |-> Concat([i \in DOMAIN files |-> outcome[i].transactions])]

\* DeduplicationEngine.validate_transfer_integrity(df) -> None: it returns
\* nothing for an empty table and prints a completion line and returns
\* nothing for any other table.
ValidateTransferIntegrity(rows) ==
    IF rows = <<>> THEN "None" ELSE "None"

\* -------------------------------------------------------- HVDCDataLoader

\* _create_default_mapping()['field_map'], in declaration order.
default_field_map ==
    << <<"Date", "hasDate">>, <<"U+B0A0 U+C9DC", "hasDate">>,
       <<"U+C218 U+B7C9", "hasVolume_numeric">>, <<"Qty", "hasVolume_numeric">>,
       <<"Volume", "hasVolume_numeric">>, <<"U+AE08 U+C561", "hasAmount_numeric">>,
       <<"Amount", "hasAmount_numeric">>, <<"Price", "hasAmount_numeric">>,
       <<"U+C704 U+CE58", "hasSite">>, <<"Location", "hasSite">>,
       <<"Site", "hasSite">>, <<"U+CC3D U+ACE0", "hasSite">>,
       <<"Warehouse", "hasSite">>, <<"U+C0C1 U+D0DC", "hasCurrentStatus">>,
       <<"Status", "hasCurrentStatus">>, <<"Type", "hasCurrentStatus">>,
       <<"U+CF00 U+C774 U+C2A4", "hasCaseNumber">>, <<"Case", "hasCaseNumber">>,
       <<"Case_No", "hasCaseNumber">> >>

\* _create_default_mapping()['required_fields'].
default_required_fields ==
    <<"hasDate", "hasVolume_numeric", "hasAmount_numeric", "hasSite",
      "hasCurrentStatus", "hasCaseNumber">>

\* _create_default_mapping().
DefaultMapping ==
    [field_map |-> default_field_map, required_fields |-> default_required_fields]

\* A file json.load cannot read.
NotJson == [error |-> "JSONDecodeError"]

\* HVDCDataLoader.load_mapping_rules: self.mapping_rules afterwards.  The
\* rules of an existing, readable file are stored; for a missing file, and
\* when reading fails, the default mapping is returned to the caller and
\* self.mapping_rules stays as it was.
LoadMappingRules(file, rules) ==
    IF file = NoValue \/ file = {NotJson} THEN rules ELSE file

\* self.mapping_rules.get(key, default): an empty dict has no key.
RulesGet(rules, key) ==
    IF rules = NoValue THEN <<>> ELSE ValueOf(rules)[key]

\* The name a column is renamed to, if any: the key that equals the column,
\* or else the first key that contains the column or is contained in it,
\* case ignored.
MappableColumn(field_map, col) ==
    LET exact == {k \in DOMAIN field_map : field_map[k][1] = col}
        lower(s) == Lower(Spelling[s])
        partial == {k \in DOMAIN field_map :
                      \/ Contains(lower(field_map[k][1]), lower(col))
                      \/ Contains(lower(col), lower(field_map[k][1]))}
        first(S) == CHOOSE k \in S : \A j \in S : k <= j
    IN  IF exact # {} THEN {field_map[first(exact)][2]}
        ELSE IF partial # {} THEN {field_map[first(partial)][2]}
        ELSE NoValue

\* The value a missing required field is filled with.
RequiredFill(field) ==
    IF field = "hasDate" THEN "now"
    ELSE IF field \in {"hasVolume_numeric", "hasAmount_numeric"} THEN "0.0"
    ELSE "UNKNOWN"

\* HVDCDataLoader.apply_column_mapping(df) with self.mapping_rules = rules:
\* the columns of df_mapped, renamed ones first, then the required fields
\* that were missing.
ApplyColumnMapping(rules, columns) ==
    LET field_map == RulesGet(rules, "field_map")
        target(col) == MappableColumn(field_map, col)
        renamed == [i \in DOMAIN columns |->
                      [column |-> IF target(columns[i]) = NoValue THEN columns[i]
                                  ELSE ValueOf(target(columns[i])),
                       value |-> "data"]]
        required_fields == RulesGet(rules, "required_fields")
        missing == SelectSeq(required_fields,
                             LAMBDA f : \A i \in DOMAIN renamed : renamed[i].column # f)
    IN  renamed \o [i \in DOMAIN missing |->
                      [column |-> missing[i], value |-> RequiredFill(missing[i])]]

\* ------------------------------------ InventoryEngine: monthly summary

\* _prepare_data for a frame that has the 'Incoming', 'Outgoing' and
\* 'Billing month' columns: a missing 'Inventory' column is created as
\* Incoming - Outgoing, row by row.
PrepareLedgerRow(r) ==
    [Month |-> r.Month, Incoming |-> r.Incoming, Outgoing |-> r.Outgoing,
     Inventory |-> IF r.Inventory = NoValue
                   THEN r.Incoming - r.Outgoing
                   ELSE ValueOf(r.Inventory)]

\* The rows of one bin of pd.Grouper(key='Billing month', freq='M').
LedgerRowsOfMonth(rows, month) == {i \in DOMAIN rows : rows[i].Month = month}

\* The 'last' aggregate of the Inventory column over the rows idx: the value
\* of the row that comes last in the frame, NaN for an empty bin.
LastInventory(rows, idx) ==
    IF idx = {} THEN NoValue ELSE {rows[MaxOf(idx)].Inventory}

\* Outgoing / End_Inventory.replace(0, 1), as numerator and denominator.
TurnoverRate(outgoing, end_inventory) ==
    IF end_inventory = NoValue THEN NoValue
    ELSE {[num |-> outgoing,
           den |-> IF ValueOf(end_inventory) = 0 THEN 1
                   ELSE ValueOf(end_inventory)]}

MonthlySummaryRow(rows, month) ==
    LET idx == LedgerRowsOfMonth(rows, month)
        incoming == SumOver(rows, idx, "Incoming")
        outgoing == SumOver(rows, idx, "Outgoing")
        last == LastInventory(rows, idx)
    IN [Month |-> month, Incoming |-> incoming, Outgoing |-> outgoing,
        End_Inventory |-> last, Net_Change |-> incoming - outgoing,
        Turnover_Rate |-> TurnoverRate(outgoing, last)]

\* calculate_monthly_summary: one row per month from the first to the last
\* month of the frame, months without rows included.
CalculateMonthlySummary(rows) ==
    IF rows = <<>> THEN <<>>
    ELSE LET months == {rows[i].Month : i \in DOMAIN rows}
             range == PeriodRange(MinOf(months), MaxOf(months))
         IN [k \in DOMAIN range |->
                MonthlySummaryRow([i \in DOMAIN rows |-> PrepareLedgerRow(rows[i])],
                                  range[k])]

\* ------------------------------------- DataLoader: sheets of several rows

\* pd.to_numeric(...).replace(0, pd.NA) for one cell.
ZeroAsMissing(qty) == IF qty = {0} THEN NoValue ELSE qty

\* _normalize_quantities: within the rows of the same case a missing quantity
\* takes the last quantity before it (ffill), else the first one after it
\* (bfill), else 1.
NormalizeQuantities(rows) ==
    [i \in DOMAIN rows |->
        LET known == {j \in DOMAIN rows :
                        /\ rows[j].case = rows[i].case
                        /\ ZeroAsMissing(rows[j].qty) # NoValue}
            before == {j \in known : j <= i}
            after == {j \in known : j >= i}
        IN IF before # {} THEN ValueOf(rows[MaxOf(before)].qty)
           ELSE IF after # {} THEN ValueOf(rows[MinOf(after)].qty)
           ELSE 1]

\* _extract_file_transactions on a sheet: the quantity column is normalized
\* first, then every row gives its transactions, in row order.
RECURSIVE ExtractSheetTransactions(_, _)
ExtractSheetTransactions(rows, n) ==
    IF n = 0 THEN <<>>
    ELSE ExtractSheetTransactions(rows, n - 1)
            \o ExtractFileTransactions(
                   [rows[n] EXCEPT !.qty = {NormalizeQuantities(rows)[n]}])

\* No sheet has been built.
IdleReports == reports = <<>>

\* No batch, no integrity check and no column mapping yet; HVDCDataLoader's
\* constructor leaves self.mapping_rules empty.
IdleHvdc ==
    /\ excel_files = <<>>
    /\ integrity = "not called"
    /\ mapping_file = NoValue
    /\ mapping_rules = NoValue
    /\ df_raw = <<>>
    /\ df_mapped = <<>>

\* Nothing deduplicated, summarised, extracted from a sheet or walked yet.
IdleExtra ==
    /\ dedup_df = <<>>
    /\ ledger = <<>>
    /\ monthly = <<>>
    /\ sheet_rows = <<>>
    /\ walk_stock = <<>>

\* The pipeline is idle.
IdlePipe ==
    /\ case_events = <<>>
    /\ transactions = <<>>
    /\ transaction_df = <<>>

\* ------------------------------------------------ specification: engine

NoTable == [dateCol |-> "Date", rows |-> <<>>]

\* Rows at the locations the engine keeps vary in every field; rows at the
\* locations it skips vary in location and day only.
KeptLocations == {"DSV Indoor", "MOSB"}

EngineRows ==
    TxRows(KeptLocations, Days, TxKinds, Quantities)
        \cup TxRows(Locations \ KeptLocations, Days, {"IN"}, {1})

InitEngine ==
    /\ pc = "start"
    /\ df = NoTable
    /\ clock = 1
    /\ stock = <<>>
    /\ stock2 = <<>>
    /\ expected = <<>>
    /\ validation = NoValidation
    /\ IdlePipe
    /\ IdleClass
    /\ IdleFlow
    /\ IdleAux
    /\ IdleReports
    /\ IdleHvdc
    /\ IdleExtra

\* The caller builds the table a row at a time.
AppendTransaction(r) ==
    /\ pc = "start"
    /\ Len(df.rows) < MaxTx
    /\ df' = [df EXCEPT !.rows = Append(@, r)]
    /\ UNCHANGED <<pc, clock, stock, stock2, expected, validation, pipeVars, classVars, flowVars, auxVars, reportVars, hvdcVars, extraVars>>

\* engine = InventoryEngine(df); daily = engine.calculate_daily_inventory()
EngineRun ==
    /\ pc = "start"
    /\ pc' = "calculated"
    /\ stock' = RunEngine(df, clock)
    /\ UNCHANGED <<df, clock, stock2, expected, validation, pipeVars, classVars, flowVars, auxVars, reportVars, hvdcVars, extraVars>>

\* calculate_daily_inventory(transaction_df) of the reporter script, on the
\* table the engine was run on.
ReporterWalk ==
    /\ pc = "calculated"
    /\ pc' = "walked"
    /\ walk_stock' = ReporterDailyInventory(df.rows)
    /\ UNCHANGED <<dedup_df, ledger, monthly, sheet_rows, engineVars, pipeVars, classVars, flowVars, auxVars, reportVars, hvdcVars>>

NextEngine ==
    \/ \E r \in EngineRows : AppendTransaction(r)
    \/ EngineRun
    \/ ReporterWalk

SpecEngine == InitEngine /\ [][NextEngine]_vars

\* ------------------------------------- specification: two runs (clock)

IdemRows == TxRows(KeptLocations, Days, {"IN", "TRANSFER_OUT"}, {1})

InitIdem ==
    /\ pc = "start"
    /\ df \in {[dateCol |-> c, rows |-> <<>>] : c \in DateCols}
    /\ clock = 1
    /\ stock = <<>>
    /\ stock2 = <<>>
    /\ expected = <<>>
    /\ validation = NoValidation
    /\ IdlePipe
    /\ IdleClass
    /\ IdleFlow
    /\ IdleAux
    /\ IdleReports
    /\ IdleHvdc
    /\ IdleExtra

\* Wall-clock time passes between the two runs.
Tick ==
    /\ pc = "calculated"
    /\ clock < MaxDay
    /\ clock' = clock + 1
    /\ UNCHANGED <<pc, df, stock, stock2, expected, validation, pipeVars, classVars, flowVars, auxVars, reportVars, hvdcVars, extraVars>>

\* A second InventoryEngine(df).calculate_daily_inventory() on the same table.
EngineRunAgain ==
    /\ pc = "calculated"
    /\ pc' = "again"
    /\ stock2' = RunEngine(df, clock)
    /\ UNCHANGED <<df, clock, stock, expected, validation, pipeVars, classVars, flowVars, auxVars, reportVars, hvdcVars, extraVars>>

NextIdem ==
    \/ \E r \in IdemRows : AppendTransaction(r)
    \/ EngineRun
    \/ Tick
    \/ EngineRunAgain

SpecIdem == InitIdem /\ [][NextIdem]_vars

\* ------------------------------------------- specification: validation

MaxExpected == 3    \* expected quantities 0..MaxExpected

ValidationRows == TxRows(KeptLocations, Days, {"IN", "TRANSFER_OUT"}, {2})

\* The expected-stock mappings: any set of kept locations, each with a quantity.
ExpectedMappings ==
    UNION {[ls -> 0..MaxExpected] : ls \in SUBSET KeptLocations}

\* engine = InventoryEngine(df); engine.validate_inventory_results(expected)
Validate(exp) ==
    /\ pc = "start"
    /\ pc' = "validated"
    /\ expected' = exp
    /\ stock' = RunEngine(df, clock)
    /\ validation' = ValidateInventoryResults(df, exp, clock)
    /\ UNCHANGED <<df, clock, stock2, pipeVars, classVars, flowVars, auxVars, reportVars, hvdcVars, extraVars>>

NextValidate ==
    \/ \E r \in ValidationRows : AppendTransaction(r)
    \/ \E exp \in ExpectedMappings : Validate(exp)

SpecValidate == InitEngine /\ [][NextValidate]_vars

\* -------------------------------------------- specification: classifiers
\* A row is filled in field by field and handed to one of the classifiers.

TypeValues ==
    {"IN", "inbound", "OUT", "Transfer", "FINAL_OUT", "TRANSFER_OUT", "STOCK_OUT"}

StatusValues == {"Received", "Delivered", "Transfer", "Pending", "Shipped"}

SignedQuantities == {-1, 0, 1}

FieldValues(field) ==
    IF field \in {"hasTransactionType", "TxType_Refined"} THEN TypeValues
    ELSE IF field = "hasCurrentStatus" THEN StatusValues
    ELSE SignedQuantities

SetField(field, v) ==
    /\ pc = "start"
    /\ row[field] = NoValue
    /\ row' = [row EXCEPT ![field] = {v}]
    /\ UNCHANGED <<pc, tx_type, engineVars, pipeVars, flowVars, auxVars, reportVars, hvdcVars, extraVars>>

ClassifyOntology ==
    /\ pc = "start"
    /\ pc' = "ontology"
    /\ tx_type' = ClassifyTransactionTypeOntology(row)
    /\ UNCHANGED <<row, engineVars, pipeVars, flowVars, auxVars, reportVars, hvdcVars, extraVars>>

ClassifyLegacy ==
    /\ pc = "start"
    /\ pc' = "legacy"
    /\ tx_type' = ClassifyTransactionType(row)
    /\ UNCHANGED <<row, engineVars, pipeVars, flowVars, auxVars, reportVars, hvdcVars, extraVars>>

NextClassify ==
    \/ \E field \in DOMAIN BareRow : \E v \in FieldValues(field) : SetField(field, v)
    \/ ClassifyOntology
    \/ ClassifyLegacy

SpecClassify == InitEngine /\ [][NextClassify]_vars

\* ----------------------------------------------- specification: pipeline
\* One sheet of one row goes through the extraction, the conversion to typed
\* transactions, the reconciliation, the deduplication and the engine.

StatusLocations == {"", "AGI", "UNKNOWN"}

StatusCurrents == {"Storage"}

StatusWarehouses == {"MOSB"}

Optional(values) == {NoValue} \cup {{v} : v \in values}

SheetRows ==
    [case : {"C1"},
     qty : Optional({0, 1, 2}),
     cells : [{Headers[i] : i \in DOMAIN Headers} -> Optional(Days)],
     status_location : Optional(StatusLocations),
     status_current : Optional(StatusCurrents),
     status_warehouse : Optional(StatusWarehouses)]

\* The status cells of a row.
StatusCells(r) ==
    [status_location |-> r.status_location,
     status_current |-> r.status_current,
     status_warehouse |-> r.status_warehouse]

\* loader._extract_file_transactions on a sheet of one row; the status cells
\* of the row are kept.
ExtractRow(r) ==
    /\ pc = "start"
    /\ pc' = "extracted"
    /\ sheet_rows' = <<StatusCells(r)>>
    /\ case_events' = SortByDate(RowEvents(r))
    /\ transactions' = ExtractFileTransactions(r)
    /\ UNCHANGED <<transaction_df, dedup_df, ledger, monthly, walk_stock, engineVars, classVars, flowVars, auxVars, reportVars, hvdcVars>>

ConvertTransactions ==
    /\ pc = "extracted"
    /\ pc' = "converted"
    /\ transaction_df' = TransactionsToDataframe(transactions)
    /\ UNCHANGED <<case_events, transactions, engineVars, classVars, flowVars, auxVars, reportVars, hvdcVars, extraVars>>

Reconcile ==
    /\ pc = "converted"
    /\ pc' = "reconciled"
    /\ transaction_df' = ReconcileOrphanTransfers(transaction_df)
    /\ UNCHANGED <<case_events, transactions, engineVars, classVars, flowVars, auxVars, reportVars, hvdcVars, extraVars>>

Deduplicate ==
    /\ pc = "reconciled"
    /\ pc' = "deduplicated"
    /\ transaction_df' = DropDuplicateTransfers(transaction_df)
    /\ UNCHANGED <<case_events, transactions, engineVars, classVars, flowVars, auxVars, reportVars, hvdcVars, extraVars>>

CalculateStock ==
    /\ pc = "deduplicated"
    /\ pc' = "calculated"
    /\ df' = AsEngineTable(transaction_df)
    /\ stock' = RunEngine(AsEngineTable(transaction_df), clock)
    /\ UNCHANGED <<clock, stock2, expected, validation, pipeVars, classVars, flowVars, auxVars, reportVars, hvdcVars, extraVars>>

NextExtract ==
    \/ \E r \in SheetRows : ExtractRow(r)
    \/ ConvertTransactions
    \/ Reconcile
    \/ Deduplicate
    \/ CalculateStock

SpecExtract == InitEngine /\ [][NextExtract]_vars

\* ------------------------------------- specification: events of a case
\* The events of one case, at warehouses and sites, are turned into
\* transactions and go the same way.

MaxEvents == 2

EventLocations == {"DSV Indoor", "MOSB", "AGI", "Shuttle Yard"}

CaseEvents ==
    [case_id : {"C1"}, date : Days, warehouse : EventLocations,
     quantity : {1}, source_column : {"events"}]

AppendEvent(e, quantity) ==
    /\ pc = "start"
    /\ Len(case_events) < MaxEvents
    /\ \A i \in DOMAIN case_events : case_events[i].quantity = quantity
    /\ case_events' = SortByDate(Append(case_events, [e EXCEPT !.quantity = quantity]))
    /\ UNCHANGED <<pc, transactions, transaction_df, engineVars, classVars, flowVars, auxVars, reportVars, hvdcVars, extraVars>>

DeriveTransactions ==
    /\ pc = "start"
    /\ pc' = "extracted"
    /\ transactions' = EventsToTransactions(case_events)
    /\ UNCHANGED <<case_events, transaction_df, engineVars, classVars, flowVars, auxVars, reportVars, hvdcVars, extraVars>>

NextDerive ==
    \/ \E e \in CaseEvents : \E quantity \in Quantities : AppendEvent(e, quantity)
    \/ DeriveTransactions
    \/ ConvertTransactions
    \/ Reconcile
    \/ Deduplicate
    \/ CalculateStock

SpecDerive == InitEngine /\ [][NextDerive]_vars

\* ---------------------------------------- specification: monthly flow
\* A table is built row by row and analysed over a range of months.

MaxFlowRows == 2

MaxMonth == 3

Months == 1..MaxMonth

FlowRows ==
    [hasSite : SiteNames \ {"MOSB", "AGI"}, hasDate : Months,
     hasVolume_numeric : {{-1}, {2}},
     TxType_Refined : {NoValue}, hasCurrentStatus : {NoValue, {"Transfer"}},
     hasAmount_numeric : {100}]
    \cup
    [hasSite : {"MOSB", "AGI"}, hasDate : Months, hasVolume_numeric : {{2}},
     TxType_Refined : {NoValue}, hasCurrentStatus : {NoValue},
     hasAmount_numeric : {100}]

AppendFlowRow(r) ==
    /\ pc = "start"
    /\ Len(flow_df) < MaxFlowRows
    /\ flow_df' = Append(flow_df, r)
    /\ UNCHANGED <<pc, all_months, monthly_flow, engineVars, pipeVars, classVars, auxVars, reportVars, hvdcVars, extraVars>>

AnalyzeFlow(lo, hi) ==
    /\ pc = "start"
    /\ pc' = "flow"
    /\ all_months' = lo..hi
    /\ monthly_flow' = CreateWarehouseMonthlyFlow(flow_df, lo..hi)
    /\ UNCHANGED <<flow_df, engineVars, pipeVars, classVars, auxVars, reportVars, hvdcVars, extraVars>>

NextFlow ==
    \/ \E r \in FlowRows : AppendFlowRow(r)
    \/ \E lo \in Months : \E hi \in lo..MaxMonth : AnalyzeFlow(lo, hi)

SpecFlow == InitEngine /\ [][NextFlow]_vars

\* ------------------------------------------ specification: location names
\* A list of names is collected and handed, name by name, to one of the
\* loader's normalizers or to the group lookup.

MaxNames == 2

NameValues ==
    {"DSV Indoor", "Hauler Indoor", "MOSB", "AGI", "AAA Storage",
     "Dangerous Storage", " MOSB ", "mosb", "MOSB Yard", "", "XYZ Depot",
     "Markaz Indoor", "Remarks", "MOSB ETA"}

AppendName(name) ==
    /\ pc = "start"
    /\ Len(names) < MaxNames
    /\ names' = Append(names, name)
    /\ UNCHANGED <<pc, results, engineVars, pipeVars, classVars, flowVars, reportVars, hvdcVars, extraVars>>

NormalizeNames ==
    /\ pc = "start"
    /\ pc' = "normalized"
    /\ results' = [i \in DOMAIN names |-> NormalizeStatusName(names[i])]
    /\ UNCHANGED <<names, engineVars, pipeVars, classVars, flowVars, reportVars, hvdcVars, extraVars>>

ExtractHeaders ==
    /\ pc = "start"
    /\ pc' = "headers"
    /\ results' = [i \in DOMAIN names |-> ExtractHeaderName(names[i])]
    /\ UNCHANGED <<names, engineVars, pipeVars, classVars, flowVars, reportVars, hvdcVars, extraVars>>

GroupNames ==
    /\ pc = "start"
    /\ pc' = "grouped"
    /\ results' = [i \in DOMAIN names |-> GetLocationGroup(names[i])]
    /\ UNCHANGED <<names, engineVars, pipeVars, classVars, flowVars, reportVars, hvdcVars, extraVars>>

NextNames ==
    \/ \E name \in Optional(NameValues) : AppendName(name)
    \/ NormalizeNames
    \/ ExtractHeaders
    \/ GroupNames

SpecNames == InitEngine /\ [][NextNames]_vars

\* ------------------------------------------ specification: monthly sheets
\* A frame is built row by row, prepared, and one sheet is built from it.

ReportDates == 1..(2 * MaxMonth)

ReportRows ==
    [hasSite : {"DSV Indoor", "AGI"}, hasDate : ReportDates,
     hasAmount : Optional({100}), hasVolume : {{2}}, hasShipmentNo : {"S1"}]

AppendReportRow(r) ==
    /\ pc = "start"
    /\ Len(flow_df) < MaxFlowRows
    /\ flow_df' = Append(flow_df, r)
    /\ UNCHANGED <<pc, all_months, monthly_flow, reports, engineVars, pipeVars, classVars, auxVars, hvdcVars, extraVars>>

\* prepare_monthly_aggregation(df); the range of an empty frame has no first
\* month to print, and the call raises.
PrepareMonthlyAggregation ==
    /\ pc = "start"
    /\ IF flow_df = <<>>
       THEN /\ pc' = "raised"
            /\ UNCHANGED <<flow_df, all_months, extraVars>>
       ELSE /\ pc' = "prepared"
            /\ flow_df' = PreparedDf(flow_df)
            /\ all_months' = AllMonthsOf(flow_df)
    /\ UNCHANGED <<monthly_flow, reports, engineVars, pipeVars, classVars, auxVars, hvdcVars, extraVars>>

\* create_monthly_dashboard(df, all_months).
MonthlyDashboard ==
    /\ pc = "prepared"
    /\ pc' = "reported"
    /\ reports' = [sheet |-> "monthly_kpi", frame |-> CreateMonthlyDashboard(flow_df, all_months)]
    /\ flow_df' = WithMonth(flow_df)
    /\ UNCHANGED <<all_months, monthly_flow, engineVars, pipeVars, classVars, auxVars, hvdcVars, extraVars>>

\* create_supplier_report(df, all_months).
SupplierReport ==
    /\ pc = "prepared"
    /\ pc' = "reported"
    /\ reports' = [sheet |-> "supplier_pivot", frame |-> CreateSupplierReport(flow_df, all_months)]
    /\ flow_df' = WithMonth(flow_df)
    /\ UNCHANGED <<all_months, monthly_flow, engineVars, pipeVars, classVars, auxVars, hvdcVars, extraVars>>

\* create_site_report(df, all_months).
SiteReport ==
    /\ pc = "prepared"
    /\ pc' = "reported"
    /\ reports' = [sheet |-> "site_pivot", frame |-> CreateSiteReport(flow_df, all_months)]
    /\ flow_df' = WithMonth(flow_df)
    /\ UNCHANGED <<all_months, monthly_flow, engineVars, pipeVars, classVars, auxVars, hvdcVars, extraVars>>

\* create_inbound_report(df, all_months).
InboundReport ==
    /\ pc = "prepared"
    /\ pc' = "reported"
    /\ reports' = [sheet |-> "inbound_monthly", frame |-> CreateInboundReport(flow_df, all_months)]
    /\ flow_df' = WithMonth(flow_df)
    /\ UNCHANGED <<all_months, monthly_flow, engineVars, pipeVars, classVars, auxVars, hvdcVars, extraVars>>

NextMonthly ==
    \/ \E r \in ReportRows : AppendReportRow(r)
    \/ PrepareMonthlyAggregation
    \/ MonthlyDashboard
    \/ SupplierReport
    \/ SiteReport
    \/ InboundReport

SpecMonthly == InitEngine /\ [][NextMonthly]_vars

\* ---------------------------------------- specification: a batch of files
\* A batch of sheets is collected and handed to extract_transactions.

MaxFiles == 2

BatchCells ==
    { [h \in {Headers[i] : i \in DOMAIN Headers} |-> NoValue],
      [h \in {Headers[i] : i \in DOMAIN Headers} |->
          IF h = "DSV Indoor" THEN {1} ELSE NoValue],
      [h \in {Headers[i] : i \in DOMAIN Headers} |->
          IF h = "DSV Indoor" THEN {2}
          ELSE IF h = "MOSB ETA" THEN {1} ELSE NoValue] }

BatchRows ==
    [case : {"C1"}, qty : {{2}}, cells : BatchCells,
     status_location : {NoValue}, status_current : {NoValue},
     status_warehouse : {NoValue}]

\* Only a sheet whose row has two events can mix dates with and without a
\* time zone.
BatchFiles ==
    [columns : {<<"Case No.">>, <<"Item">>}, row : Optional(BatchRows),
     mixed_timezones : {FALSE}]
    \cup
    [columns : {<<"Case No.">>},
     row : {{r} : r \in {b \in BatchRows : Len(FindDateColumns(b)) > 1}},
     mixed_timezones : {TRUE}]

AppendFile(file) ==
    /\ pc = "start"
    /\ Len(excel_files) < MaxFiles
    /\ excel_files' = Append(excel_files, file)
    /\ UNCHANGED <<pc, integrity, mapping_file, mapping_rules, df_raw, df_mapped, engineVars, pipeVars, classVars, flowVars, auxVars, reportVars, extraVars>>

ExtractBatch ==
    /\ pc = "start"
    /\ LET out == ExtractTransactions(excel_files)
       IN  /\ pc' = IF out.raised THEN "raised" ELSE "extracted"
           /\ transactions' = out.transactions
    /\ UNCHANGED <<case_events, transaction_df, engineVars, classVars, flowVars, auxVars, reportVars, hvdcVars, extraVars>>

NextBatch ==
    \/ \E file \in BatchFiles : AppendFile(file)
    \/ ExtractBatch

SpecBatch == InitEngine /\ [][NextBatch]_vars

\* -------------------------------------- specification: transfer integrity
\* A transaction table is built row by row and handed to the reconciliation
\* or to the integrity validation of DeduplicationEngine.

TransferRows ==
    { [Case_No |-> "C1", Date |-> d, Location |-> l, Source_File |-> SourceFile,
       Loc_From |-> IF k = "IN" THEN "SOURCE" ELSE l,
       Target_Warehouse |-> IF k = "IN" THEN l ELSE "DESTINATION",
       TxType_Refined |-> k, Qty |-> q] :
      d \in Days, l \in {"DSV Indoor", "MOSB"}, k \in {"IN", "TRANSFER_OUT"},
      q \in Quantities }

AppendTransferRow(r) ==
    /\ pc = "start"
    /\ Len(transaction_df) < MaxTx
    /\ transaction_df' = Append(transaction_df, r)
    /\ UNCHANGED <<pc, case_events, transactions, engineVars, classVars, flowVars, auxVars, reportVars, hvdcVars, extraVars>>

ReconcileTable ==
    /\ pc = "start"
    /\ pc' = "reconciled"
    /\ transaction_df' = ReconcileOrphanTransfers(transaction_df)
    /\ UNCHANGED <<case_events, transactions, engineVars, classVars, flowVars, auxVars, reportVars, hvdcVars, extraVars>>

ValidateTable ==
    /\ pc = "start"
    /\ pc' = "validated"
    /\ integrity' = ValidateTransferIntegrity(transaction_df)
    /\ UNCHANGED <<excel_files, mapping_file, mapping_rules, df_raw, df_mapped, engineVars, pipeVars, classVars, flowVars, auxVars, reportVars, extraVars>>

\* engine.drop_duplicate_transfers(df)
DropTable ==
    /\ pc = "start"
    /\ pc' = "dropped"
    /\ dedup_df' = DropDuplicateTransfers(transaction_df)
    /\ UNCHANGED <<ledger, monthly, sheet_rows, walk_stock, engineVars, pipeVars, classVars, flowVars, auxVars, reportVars, hvdcVars>>

\* engine.drop_duplicate_transfers(...) applied to its own result.
DropTableAgain ==
    /\ pc = "dropped"
    /\ pc' = "dropped twice"
    /\ dedup_df' = DropDuplicateTransfers(dedup_df)
    /\ UNCHANGED <<ledger, monthly, sheet_rows, walk_stock, engineVars, pipeVars, classVars, flowVars, auxVars, reportVars, hvdcVars>>

NextIntegrity ==
    \/ \E r \in TransferRows : AppendTransferRow(r)
    \/ ReconcileTable
    \/ ValidateTable
    \/ DropTable
    \/ DropTableAgain

SpecIntegrity == InitEngine /\ [][NextIntegrity]_vars

\* ------------------------------------------ specification: column mapping
\* A frame gets its columns, a mapping file may be written, and the loader
\* loads the rules and maps the columns.

MaxColumns == 2

ColumnNames == {"Qty", "Remarks", "Arrival Date", "Pri", "hasSite"}

\* What a mapping file may hold: a mapping of its own, or no JSON at all.
CustomMapping ==
    [field_map |-> << <<"Qty", "hasVolume_numeric">> >>,
     required_fields |-> <<"hasDate">>]

MappingFiles == {CustomMapping, NotJson}

AppendColumn(col) ==
    /\ pc = "start"
    /\ Len(df_raw) < MaxColumns
    /\ \A i \in DOMAIN df_raw : df_raw[i] # col
    /\ df_raw' = Append(df_raw, col)
    /\ UNCHANGED <<pc, excel_files, integrity, mapping_file, mapping_rules, df_mapped, engineVars, pipeVars, classVars, flowVars, auxVars, reportVars, extraVars>>

WriteMappingFile(content) ==
    /\ pc = "start"
    /\ mapping_file = NoValue
    /\ mapping_file' = {content}
    /\ UNCHANGED <<pc, excel_files, integrity, mapping_rules, df_raw, df_mapped, engineVars, pipeVars, classVars, flowVars, auxVars, reportVars, extraVars>>

\* loader.load_mapping_rules(), called by the user of the loader.
LoadRules ==
    /\ pc = "start"
    /\ pc' = "loaded"
    /\ mapping_rules' = LoadMappingRules(mapping_file, mapping_rules)
    /\ UNCHANGED <<excel_files, integrity, mapping_file, df_raw, df_mapped, engineVars, pipeVars, classVars, flowVars, auxVars, reportVars, extraVars>>

\* loader.apply_column_mapping(df): it loads the rules first when
\* self.mapping_rules is empty.
MapColumns ==
    /\ pc \in {"start", "loaded"}
    /\ pc' = "mapped"
    /\ LET rules == IF mapping_rules = NoValue
                    THEN LoadMappingRules(mapping_file, mapping_rules)
                    ELSE mapping_rules
       IN  /\ mapping_rules' = rules
           /\ df_mapped' = ApplyColumnMapping(rules, df_raw)
    /\ UNCHANGED <<excel_files, integrity, mapping_file, df_raw, engineVars, pipeVars, classVars, flowVars, auxVars, reportVars, extraVars>>

NextMapping ==
    \/ \E col \in ColumnNames : AppendColumn(col)
    \/ \E content \in MappingFiles : WriteMappingFile(content)
    \/ LoadRules
    \/ MapColumns

SpecMapping == InitEngine /\ [][NextMapping]_vars

\* ------------------------------------------- specification: monthly summary

\* The rows of a frame with Incoming and Outgoing columns, with or without
\* an Inventory column.
LedgerRows ==
    [Month : Months, Incoming : {0, 2}, Outgoing : {0, 1},
     Inventory : Optional({0, 5})]

\* A frame has the Inventory column in every row or in none.
AppendLedgerRow(r) ==
    /\ pc = "start"
    /\ Len(ledger) < MaxTx
    /\ ledger # <<>> => (ledger[1].Inventory = NoValue) = (r.Inventory = NoValue)
    /\ ledger' = Append(ledger, r)
    /\ UNCHANGED <<pc, dedup_df, monthly, sheet_rows, walk_stock, engineVars, pipeVars, classVars, flowVars, auxVars, reportVars, hvdcVars>>

\* InventoryEngine(df).calculate_monthly_summary()
MonthlySummary ==
    /\ pc = "start"
    /\ pc' = "summarised"
    /\ monthly' = CalculateMonthlySummary(ledger)
    /\ UNCHANGED <<dedup_df, ledger, sheet_rows, walk_stock, engineVars, pipeVars, classVars, flowVars, auxVars, reportVars, hvdcVars>>

NextSummary ==
    \/ \E r \in LedgerRows : AppendLedgerRow(r)
    \/ MonthlySummary

SpecSummary == InitEngine /\ [][NextSummary]_vars

\* --------------------------------------------- specification: quantities

MaxSheet == 3       \* rows of a sheet

\* Rows of two cases with any raw quantity, each with one dated cell.
QuantityRows ==
    [case : {"C1", "C2"},
     qty : Optional({-1, 0, 2, 3}),
     cells : {[h \in {Headers[i] : i \in DOMAIN Headers} |->
                  IF h = "DSV Indoor" THEN {1} ELSE NoValue]},
     status_location : {NoValue},
     status_current : {NoValue},
     status_warehouse : {NoValue}]

AppendSheetRow(r) ==
    /\ pc = "start"
    /\ Len(sheet_rows) < MaxSheet
    /\ sheet_rows' = Append(sheet_rows, r)
    /\ UNCHANGED <<pc, dedup_df, ledger, monthly, walk_stock, engineVars, pipeVars, classVars, flowVars, auxVars, reportVars, hvdcVars>>

\* loader._extract_file_transactions(df, filename)
ExtractSheet ==
    /\ pc = "start"
    /\ pc' = "sheet extracted"
    /\ transactions' = ExtractSheetTransactions(sheet_rows, Len(sheet_rows))
    /\ UNCHANGED <<case_events, transaction_df, engineVars, classVars, flowVars, auxVars, reportVars, hvdcVars, extraVars>>

NextQuantity ==
    \/ \E r \in QuantityRows : AppendSheetRow(r)
    \/ ExtractSheet

SpecQuantity == InitEngine /\ [][NextQuantity]_vars

\* ----------------------------------------------------- claims: engine

RecordsOf(records, loc) == SelectSeq(records, LAMBDA r : r.Location = loc)

RowDays(loc) == {df.rows[i].Day : i \in {j \in DOMAIN df.rows : df.rows[j].Location = loc}}

RecordDays(loc) ==
    {stock[i].Date : i \in {j \in DOMAIN stock : stock[j].Location = loc}}

\* C1 (conservation): in every StockRecord, Total_Outbound = Transfer_Out +
\* Final_Out and Closing_Stock = Opening_Stock + Inbound - Transfer_Out -
\* Final_Out.
C1_Conservation ==
    pc = "calculated" =>
        \A i \in DOMAIN stock :
            /\ stock[i].Total_Outbound = stock[i].Transfer_Out + stock[i].Final_Out
            /\ stock[i].Closing_Stock =
                  stock[i].Opening_Stock + stock[i].Inbound
                    - stock[i].Transfer_Out - stock[i].Final_Out

C1_Witness ==
    /\ pc = "calculated"
    /\ \E i \in DOMAIN stock :
          /\ stock[i].Final_Out > 0
          /\ stock[i].Transfer_Out > 0

\* C2 (balance identity): the records of a location are in chronological
\* order, the first opens at 0, and each record opens at the closing stock
\* of the record before it.
C2_BalanceIdentity ==
    pc = "calculated" =>
        \A loc \in Locations :
            LET recs == RecordsOf(stock, loc)
            IN /\ recs # <<>> => recs[1].Opening_Stock = 0
               /\ \A i \in 1..(Len(recs) - 1) :
                     /\ recs[i].Date < recs[i + 1].Date
                     /\ recs[i].Closing_Stock = recs[i + 1].Opening_Stock

C2_Witness ==
    /\ pc = "calculated"
    /\ Len(df.rows) = 2
    /\ df.rows[1].Day > df.rows[2].Day
    /\ \E loc \in Locations :
          /\ Len(RecordsOf(stock, loc)) = 2
          /\ RecordsOf(stock, loc)[1].Closing_Stock # 0

C5_LocationExclusion ==
    pc = "calculated" =>
        /\ \A i \in DOMAIN stock : stock[i].Location \notin {"UNKNOWN", ""}
        /\ stock = RunEngine(
                     [df EXCEPT !.rows =
                        SelectSeq(@, LAMBDA r : r.Location \notin {"UNKNOWN", ""})],
                     clock)

C5_Witness ==
    /\ pc = "calculated"
    /\ \E i \in DOMAIN df.rows : df.rows[i].Location = ""
    /\ stock # <<>>

\* ---------------------------------------------------- claims: two runs

\* C9 (idempotence), as claimed: two runs of the engine on the same table
\* give the same StockRecord sequence, whatever the table's columns and
\* whenever the runs are made.
C9_IdempotenceClaim == pc = "again" => stock2 = stock

\* C9 as amended: the two runs agree when the table has a Date or a
\* Billing month column.
C9_IdempotentWithDateColumn ==
    (pc = "again" /\ df.dateCol # "none") => stock2 = stock

C9_Witness ==
    /\ pc = "again"
    /\ df.dateCol = "Billing month"
    /\ clock > 1
    /\ Len(stock) = 2

\* --------------------------------------------------- claims: validation

\* The Closing_Stock of the chronologically last record of a location.
LastClosing(records, loc) ==
    LET recs == {records[i] : i \in {j \in DOMAIN records : records[j].Location = loc}}
    IN (CHOOSE r \in recs : \A q \in recs : q.Date <= r.Date).Closing_Stock

\* C7 (validation tolerance): a location with records is a match iff
\* |actual - expected| <= 2, actual being the Closing_Stock of its
\* chronologically last record, and the difference is actual - expected.
C7_ValidationTolerance ==
    (pc = "validated" /\ validation.kind = "ok") =>
        \A loc \in DOMAIN expected :
            RecordsOf(stock, loc) # <<>> =>
                LET actual == LastClosing(stock, loc)
                    delta == actual - expected[loc]
                IN /\ validation.summary[loc].actual = actual
                   /\ validation.summary[loc].difference = delta
                   /\ validation.summary[loc].match <=> (delta \in -2..2)
                   /\ ~validation.summary[loc].match <=>
                        \E mm \in validation.mismatches :
                            mm.location = loc /\ mm.difference = delta

\* Expected 3 against actual 4 matches (delta 1); expected 0 against actual
\* 4 on a later day of the same location would not.
C7_Witness ==
    /\ pc = "validated"
    /\ validation.kind = "ok"
    /\ DOMAIN expected = KeptLocations
    /\ expected["MOSB"] = 3
    /\ Len(RecordsOf(stock, "MOSB")) = 2
    /\ RecordsOf(stock, "MOSB")[1].Closing_Stock = 2
    /\ LastClosing(stock, "MOSB") = 4
    /\ validation.summary["MOSB"].match
    /\ ~validation.summary["DSV Indoor"].match

\* -------------------------------------------------- claims: classifiers

\* C8 as stated: a row with no transaction-type, status or quantity field
\* is classified IN by classify_transaction_type_ontology and by
\* classify_transaction_type.
C8_DefaultInBoth ==
    (pc \in {"ontology", "legacy"} /\ row = BareRow) => tx_type = "IN"

\* C8, amended: on such a row classify_transaction_type_ontology returns
\* IN, and the legacy classify_transaction_type returns UNKNOWN.
C8_DefaultInOntologyUnknownLegacy ==
    /\ (pc = "ontology" /\ row = BareRow) => tx_type = "IN"
    /\ (pc = "legacy" /\ row = BareRow) => tx_type = "UNKNOWN"

C8_Witness ==
    pc = "legacy" /\ row = BareRow /\ tx_type = "UNKNOWN"

\* ----------------------------------------------------- claims: pipeline

RECURSIVE SumQty(_)
SumQty(rows) ==
    IF rows = <<>> THEN 0 ELSE Head(rows).Qty + SumQty(Tail(rows))

\* The location of an event as the transaction table names it.
EventLocation(e) == NormalizeWarehouseName(e.warehouse)

\* The IN row is the arrival that compensates the TRANSFER_OUT row: same
\* case, date and quantity, at the location that follows the one left in
\* the sequence of the case.
Compensates(in, out) ==
    /\ in.TxType_Refined = "IN"
    /\ out.TxType_Refined = "TRANSFER_OUT"
    /\ in.Case_No = out.Case_No
    /\ in.Date = out.Date
    /\ in.Qty = out.Qty
    /\ \E i \in 2..Len(case_events) :
          /\ case_events[i].case_id = out.Case_No
          /\ case_events[i].date = out.Date
          /\ EventLocation(case_events[i - 1]) = out.Location
          /\ EventLocation(case_events[i]) = in.Location

TransferOuts(rows) ==
    SelectSeq(rows, LAMBDA r : r.TxType_Refined = "TRANSFER_OUT")

CompensatingIns(rows) ==
    SelectSeq(rows, LAMBDA r : \E j \in DOMAIN rows : Compensates(r, rows[j]))

\* C6: after extraction, conversion, reconciliation and deduplication, the
\* TRANSFER_OUT quantities of the case sum to the same as the quantities of
\* the IN rows that compensate them.
C6_TransferPairing ==
    pc \in {"deduplicated", "calculated"} =>
        SumQty(TransferOuts(transaction_df)) = SumQty(CompensatingIns(transaction_df))

Sites == {"AGI", "DAS", "MIR", "SHU"}

\* Event i of the case is at a warehouse and event i + 1 at a terminal site.
WarehouseThenSite(i) ==
    /\ i \in 1..(Len(case_events) - 1)
    /\ ExtractSite(case_events[i].warehouse) \notin Sites
    /\ ExtractSite(case_events[i + 1].warehouse) \in Sites

\* The OUT rows of the departure from event i's location on the day of
\* event i + 1.
DepartureRows(i) ==
    SelectSeq(transaction_df,
              LAMBDA r : /\ r.TxType_Refined # "IN"
                         /\ r.Location = EventLocation(case_events[i])
                         /\ r.Date = case_events[i + 1].date)

\* The departures from a warehouse to a site all have the given kind.
DeparturesToSiteAre(kind) ==
    \A i \in DOMAIN case_events :
        WarehouseThenSite(i) =>
            /\ DepartureRows(i) # <<>>
            /\ \A k \in DOMAIN DepartureRows(i) :
                   DepartureRows(i)[k].TxType_Refined = kind

\* The last stock record of the warehouse of a case of two events,
\* warehouse then site.
WarehouseClosingRecord ==
    LET records == RecordsOf(stock, EventLocation(case_events[1]))
    IN records[Len(records)]

TwoEventsWarehouseThenSite ==
    Len(case_events) = 2 /\ WarehouseThenSite(1)

ActiveIn(warehouse, month) ==
    <<warehouse, month>> \in GroupKeys(WarehouseDf(flow_df))

\* C4: a warehouse with activity in one month of the range and none in a
\* later month of the range has, for the later month, a record with zero
\* inbound and outbound and the stock of its last active month.
C4_ZeroActivityCarryForward ==
    (pc = "flow" /\ monthly_flow.kind = "flow") =>
        \A w \in monthly_flow.warehouses : \A m0 \in all_months : \A m \in all_months :
            (/\ m0 < m
             /\ ActiveIn(w, m0)
             /\ \A between \in (m0 + 1)..m : ~ActiveIn(w, between))
            => /\ monthly_flow.rows[<<w, m>>].InQty = 0
               /\ monthly_flow.rows[<<w, m>>].OutQty = 0
               /\ monthly_flow.rows[<<w, m>>].Cumulative_Stock
                      = monthly_flow.rows[<<w, m0>>].Cumulative_Stock

\* ----------------------------------------------- claims: location names

\* The name with the surrounding blanks removed.
TrimmedName(v) == IF v = " MOSB " THEN "MOSB" ELSE v

\* The rules one of whose patterns is in the text.
MatchingRules(rules, cs) ==
    {i \in DOMAIN rules :
        \E k \in DOMAIN rules[i].patterns : Contains(Spelling[rules[i].patterns[k]], cs)}

FirstDeclared(rules, cs) ==
    rules[CHOOSE i \in MatchingRules(rules, cs) :
            \A j \in MatchingRules(rules, cs) : i <= j].canonical

\* The text the status normalizer matches against.
StatusText(name) ==
    IF name = NoValue THEN <<>> ELSE Strip(Lower(Spelling[ValueOf(name)]))

\* The text the header normalizer matches against.
HeaderText(name) ==
    RemoveKeywords(Strip(Lower(Spelling[IF name = NoValue THEN "nan" ELSE ValueOf(name)])),
                   date_keywords)

\* What _extract_warehouse_from_column is claimed to return.
HeaderResultIs(i) ==
    results[i] = IF MatchingRules(warehouse_mapping, HeaderText(names[i])) = {}
                 THEN "UNKNOWN"
                 ELSE FirstDeclared(warehouse_mapping, HeaderText(names[i]))

\* C14 as stated: both normalizers return 'UNKNOWN' for a name that matches
\* no variant of any canonical name, and the first declared canonical name
\* for a name that matches several.
C14_UnmatchedIsUnknown ==
    /\ pc = "headers" => \A i \in DOMAIN names : HeaderResultIs(i)
    /\ pc = "normalized" =>
          \A i \in DOMAIN names :
              results[i] = IF MatchingRules(warehouse_rules, StatusText(names[i])) = {}
                           THEN "UNKNOWN"
                           ELSE FirstDeclared(warehouse_rules, StatusText(names[i]))

\* C14, amended: _extract_warehouse_from_column returns 'UNKNOWN' for a
\* header that matches no variant; _normalize_warehouse_name returns
\* 'UNKNOWN' only for a missing or empty value and returns a non-empty name
\* that matches no variant as it is, trimmed; in both the first declared
\* canonical name wins.
C14_UnmatchedHeaderUnknownStatusKept ==
    /\ pc = "headers" => \A i \in DOMAIN names : HeaderResultIs(i)
    /\ pc = "normalized" =>
          \A i \in DOMAIN names :
              results[i] = IF names[i] = NoValue \/ names[i] = {""} THEN "UNKNOWN"
                           ELSE IF MatchingRules(warehouse_rules, StatusText(names[i])) = {}
                           THEN TrimmedName(ValueOf(names[i]))
                           ELSE FirstDeclared(warehouse_rules, StatusText(names[i]))

\* An unknown depot is kept as it is; a name of two warehouses is the first
\* declared one.
C14_Witness ==
    /\ pc = "normalized"
    /\ names = <<{"XYZ Depot"}, {"Markaz Indoor"}>>
    /\ results = <<"XYZ Depot", "DSV Al Markaz">>

\* The group whose ontology list holds the name, by equality of names.
GroupByEquality(v) ==
    IF v \in {"DSV Indoor", "DSV Al Markaz", "Hauler Indoor"} THEN "IndoorWarehouse"
    ELSE IF v \in {"DSV Outdoor", "DSV MZP", "MOSB"} THEN "OutdoorWarehouse"
    ELSE IF v \in {"AGI", "DAS", "MIR", "SHU"} THEN "Site"
    ELSE IF v \in {"AAA Storage", "Dangerous Storage"} THEN "DangerousCargoWarehouse"
    ELSE "UNKNOWN"

ListedNames(list) == {list[i] : i \in DOMAIN list}

\* C15: get_location_group returns a group only for a name that, trimmed,
\* equals a name of the group's list, UNKNOWN for every other name (one
\* that contains a listed name, another letter case, blank, missing), and
\* no name is listed in two groups.
C15_ExactLookup ==
    /\ pc = "grouped" =>
          \A i \in DOMAIN names :
              results[i] = IF names[i] = NoValue THEN "UNKNOWN"
                           ELSE GroupByEquality(TrimmedName(ValueOf(names[i])))
    /\ \A g, h \in {INDOOR_WAREHOUSE, OUTDOOR_WAREHOUSE, SITE, DANGEROUS_CARGO} :
          g # h => ListedNames(g) \cap ListedNames(h) = {}

\* A padded listed name is in its group; a name that contains a listed
\* name and a listed name in lower case are not.
C15_Witness ==
    /\ pc = "grouped"
    /\ names = <<{" MOSB "}, {"MOSB Yard"}>>
    /\ results = <<"OutdoorWarehouse", "UNKNOWN">>

\* ------------------------------------------------ claims: sites in stock

\* The locations that have a StockRecord.
RecordLocations == {stock[i].Location : i \in DOMAIN stock}

\* The locations that have a transaction.
TransactionLocations == {transaction_df[i].Location : i \in DOMAIN transaction_df}

\* C11 as stated: a location of the Site group never gets a StockRecord,
\* even when transactions exist at it.
C11_SitesGetNoRecord ==
    pc = "calculated" =>
        \A loc \in RecordLocations : GetLocationGroup({loc}) # "Site"

\* C11, amended: calculate_daily_inventory produces StockRecords for every
\* location that has transactions except 'UNKNOWN', 'UNK' and the blank
\* name, whatever its group; a site with transactions gets records.
C11_EveryNamedLocationGetsRecords ==
    pc = "calculated" =>
        RecordLocations = TransactionLocations \ {"UNKNOWN", "UNK", ""}

\* The status columns place the case at AGI; AGI has a record.
C11_Witness ==
    /\ pc = "calculated"
    /\ "AGI" \in TransactionLocations
    /\ GetLocationGroup({"AGI"}) = "Site"
    /\ \E i \in DOMAIN stock : stock[i].Location = "AGI" /\ stock[i].Inbound > 0

\* -------------------------------------------------- claims: monthly sheets

\* The months a sheet shows: its index or its columns.
MonthsShown(sheet, frame) ==
    CASE sheet \in {"monthly_kpi", "inbound_monthly"} -> {DOMAIN frame}
      [] sheet = "supplier_pivot" ->
            {DOMAIN frame[site].month : site \in DOMAIN frame}
      [] sheet = "site_pivot" ->
            {DOMAIN frame[site].sum : site \in DOMAIN frame}
                \cup {DOMAIN frame[site].count : site \in DOMAIN frame}

RangeOf(seq) == {seq[i] : i \in DOMAIN seq}

Gapless(months) ==
    /\ months # <<>>
    /\ \A i \in 1..(Len(months) - 1) : months[i + 1] = months[i] + 1

\* C12: all_months is the gapless range from the earliest to the latest month
\* of the frame, and every sheet built from the frame and all_months shows
\* every month of all_months.
C12_AllMonthsPresent ==
    /\ pc \in {"prepared", "reported"} =>
          /\ Gapless(all_months)
          /\ \A i \in DOMAIN flow_df :
                /\ all_months[1] <= flow_df[i].BillingMonth
                /\ flow_df[i].BillingMonth <= all_months[Len(all_months)]
          /\ \E i \in DOMAIN flow_df : flow_df[i].BillingMonth = all_months[1]
          /\ \E i \in DOMAIN flow_df :
                flow_df[i].BillingMonth = all_months[Len(all_months)]
    /\ pc = "reported" =>
          \A shown \in MonthsShown(reports.sheet, reports.frame) :
              RangeOf(all_months) \subseteq shown

\* -------------------------------------------------- claims: batch of files

\* The transactions returned that carry the name of file i.
TransactionsOfFile(i) ==
    SelectSeq(transactions, LAMBDA t : t.source_file = FileNames[i])

\* File i has no detectable case column or no detectable date column.
Undetectable(file) ==
    \/ file.row = NoValue
    \/ FindCaseColumn(file.columns) = NoValue
    \/ FindDateColumns(ValueOf(file.row)) = <<>>

\* The extraction of file i fails with an exception.
FailsAlone(file) ==
    /\ ~Undetectable(file)
    /\ file.mixed_timezones
    /\ Len(RowEvents(ValueOf(file.row))) > 1

\* C13: extract_transactions never raises; a file without a detectable case
\* column or without detectable date columns (and a file whose extraction
\* fails) contributes nothing, and every other file of the batch contributes
\* all its transactions.
C13_PerFileNonFatal ==
    /\ pc # "raised"
    /\ pc = "extracted" =>
          \A i \in DOMAIN excel_files :
              IF Undetectable(excel_files[i]) \/ FailsAlone(excel_files[i])
              THEN TransactionsOfFile(i) = <<>>
              ELSE TransactionsOfFile(i) =
                      FromFile(ExtractFileTransactions(ValueOf(excel_files[i].row)),
                               FileNames[i])

\* A batch of a sheet with a row but without a case column (or without date
\* columns) next to a sheet that yields transactions, which are returned.
C13_Witness ==
    /\ pc = "extracted"
    /\ \E i, j \in DOMAIN excel_files :
          /\ excel_files[i].row # NoValue
          /\ \/ FindCaseColumn(excel_files[i].columns) = NoValue
             \/ FindDateColumns(ValueOf(excel_files[i].row)) = <<>>
          /\ TransactionsOfFile(i) = <<>>
          /\ Len(TransactionsOfFile(j)) = 3

\* --------------------------------------------- claims: transfer integrity

\* Row j is an arrival of the case of row i, of its quantity, on the same or
\* a later date.
MatchingIn(rows, i, j) ==
    /\ rows[j].TxType_Refined = "IN"
    /\ rows[j].Case_No = rows[i].Case_No
    /\ rows[j].Qty = rows[i].Qty
    /\ rows[j].Date >= rows[i].Date

\* The TRANSFER_OUT rows without a matching arrival.
OrphanTransfers(rows) ==
    {i \in DOMAIN rows :
        /\ rows[i].TxType_Refined = "TRANSFER_OUT"
        /\ ~\E j \in DOMAIN rows : MatchingIn(rows, i, j)}

\* C16: in the table reconcile_orphan_transfers returns, every TRANSFER_OUT
\* has a matching arrival, original or synthesized (the table has the columns
\* it had, so no row carries a flag and nothing else is returned).
C16_OrphansReconciled ==
    pc = "reconciled" => OrphanTransfers(transaction_df) = {}

\* Some case has a TRANSFER_OUT quantity that no arrival compensates.
TransferViolation(rows) == OrphanTransfers(rows) # {}

\* C17: validate_transfer_integrity never raises, and for a table in which a
\* case's TRANSFER_OUT quantities are not matched by compensating arrivals it
\* returns a report, not nothing.
C17_ViolationReported ==
    /\ pc # "raised"
    /\ (pc = "validated" /\ TransferViolation(transaction_df)) => integrity # "None"

\* ------------------------------------------------- claims: column mapping

ColumnsOf(frame) == {frame[i].column : i \in DOMAIN frame}

\* C18: when the mapping file does not exist, the loader does not fail and
\* the default mapping is in effect afterwards: self.mapping_rules holds the
\* default field map and required fields, a column 'Qty' is renamed to
\* hasVolume_numeric, and the missing required fields are added.
C18_DefaultMappingInEffect ==
    /\ pc # "raised"
    /\ (pc = "mapped" /\ mapping_file = NoValue) =>
          /\ mapping_rules = {DefaultMapping}
          /\ \A i \in DOMAIN df_raw :
                df_raw[i] = "Qty" => df_mapped[i].column = "hasVolume_numeric"
          /\ \A i \in DOMAIN default_required_fields :
                default_required_fields[i] \in ColumnsOf(df_mapped)

\* ----------------------------------------------- claims: classifier priority

\* What the quantity columns say: the first present, non-zero one decides,
\* and IN is the default.
KindByQuantity(r) ==
    LET decides(q) == q # NoValue /\ q # {0}
        kind(q) == IF ValueOf(q) > 0 THEN "IN" ELSE "OUT"
    IN  IF decides(r.hasQuantity) THEN kind(r.hasQuantity)
        ELSE IF decides(r.hasVolume_numeric) THEN kind(r.hasVolume_numeric)
        ELSE IF decides(r.hasVolume) THEN kind(r.hasVolume)
        ELSE "IN"

\* What the status says, and the quantity after it: the status values with
\* a word of the IN family (IN, RECEIVE, ARRIVAL, INBOUND), of the OUT family
\* (OUT, SHIP, DELIVERY, OUTBOUND), with TRANSFER, and with none of them.
KindByStatus(r) ==
    IF r.hasCurrentStatus \in {{"Received"}, {"Pending"}} THEN "IN"
    ELSE IF r.hasCurrentStatus = {"Shipped"} THEN "OUT"
    ELSE IF r.hasCurrentStatus = {"Transfer"} THEN "TRANSFER"
    ELSE KindByQuantity(r)

\* C19 (as the code has it): the transaction type decides when it is IN or
\* holds INBOUND, is OUT or holds OUTBOUND, or holds TRANSFER, whatever the
\* status and the quantities are; a type that only holds IN or OUT inside
\* another word (FINAL_OUT, STOCK_OUT) decides nothing.  Otherwise the
\* status decides by its keywords, otherwise the first non-zero quantity, and
\* the result is one of IN, OUT, TRANSFER.
C19_PriorityWithWholeTypeWords ==
    pc = "ontology" =>
        /\ tx_type \in {"IN", "OUT", "TRANSFER"}
        /\ row.hasTransactionType \in {{"IN"}, {"inbound"}} => tx_type = "IN"
        /\ row.hasTransactionType = {"OUT"} => tx_type = "OUT"
        /\ row.hasTransactionType \in {{"Transfer"}, {"TRANSFER_OUT"}} =>
              tx_type = "TRANSFER"
        /\ row.hasTransactionType \in {NoValue, {"FINAL_OUT"}, {"STOCK_OUT"}} =>
              tx_type = KindByStatus(row)

\* C19 (as stated): a transaction type that contains the keyword OUT, and
\* neither IN nor TRANSFER, gives OUT whatever the status and the quantities
\* are.
C19_TypeKeywordDecides ==
    (/\ pc = "ontology"
     /\ row.hasTransactionType # NoValue
     /\ LET tx == Strip(Upper(Spelling[ValueOf(row.hasTransactionType)]))
        IN  /\ Contains(Spelling["OUT"], tx)
            /\ ~Contains(Spelling["IN"], tx)
            /\ ~Contains(Spelling["TRANSFER"], tx))
    => tx_type = "OUT"

\* A row of type STOCK_OUT with a status of the IN family and a negative
\* quantity is classified by its status.
C19_Witness ==
    /\ pc = "ontology"
    /\ row.hasTransactionType = {"STOCK_OUT"}
    /\ row.hasCurrentStatus = {"Received"}
    /\ row.hasQuantity = {-1}
    /\ tx_type = "IN"

\* ------------------------------------------- claims: transaction derivation

\* The position of a date column among the headers of the sheet.
ColumnIndex(h) == CHOOSE i \in DOMAIN Headers : Headers[i] = h

\* The events are in ascending date order, equal dates in column order.
EventsSorted(events) ==
    \A i, j \in DOMAIN events :
        i < j =>
            \/ events[i].date < events[j].date
            \/ /\ events[i].date = events[j].date
               /\ ColumnIndex(events[i].source_column)
                    < ColumnIndex(events[j].source_column)

\* C20: the n events of a row are sorted by date (ties in column order), and
\* extraction emits exactly n arrivals, the i-th at events[i].location dated
\* events[i].date, and exactly n-1 departures, the one of event i > 1 at the
\* location of the event before and dated events[i].date, all of the
\* quantity of the row.
C20_TransactionDerivation ==
    pc = "extracted" =>
        LET n == Len(case_events)
            ins == SelectSeq(transactions, LAMBDA t : t.outgoing = 0)
            outs == SelectSeq(transactions, LAMBDA t : t.incoming = 0)
        IN  /\ EventsSorted(case_events)
            /\ Len(transactions) = Len(ins) + Len(outs)
            /\ Len(ins) = n
            /\ \A i \in 1..n :
                  /\ ins[i].warehouse = case_events[i].warehouse
                  /\ ins[i].date = case_events[i].date
                  /\ ins[i].incoming = case_events[1].quantity
            /\ Len(outs) = Max(n - 1, 0)
            /\ \A i \in 2..n :
                  /\ outs[i - 1].warehouse = case_events[i - 1].warehouse
                  /\ outs[i - 1].date = case_events[i].date
                  /\ outs[i - 1].outgoing = case_events[1].quantity

\* A row of three events that the sort reorders and that has a tie: the
\* last column holds the earliest date, the first two columns the same date;
\* five transactions come out, the first departure from MOSB.
C20_Witness ==
    /\ pc = "extracted"
    /\ Len(case_events) = 3
    /\ case_events[1].source_column = "MOSB ETA"
    /\ case_events[2].date = case_events[3].date
    /\ case_events[1].warehouse = "MOSB"
    /\ case_events[2].warehouse = "DSV Indoor"
    /\ Len(transactions) = 5
    /\ transactions[3].warehouse = "MOSB"
    /\ transactions[3].outgoing = 2

\* ------------------------------------------------ claims: kind of an OUT row

\* The name holds one of the site codes, case ignored.
HoldsSiteCode(name) ==
    \E code \in Sites : Contains(Spelling[code], Upper(Spelling[name]))

\* The departures from the location of event i all have the given kind, and
\* there is one.
DeparturesAre(i, kind) ==
    /\ DepartureRows(i) # <<>>
    /\ \A k \in DOMAIN DepartureRows(i) : DepartureRows(i)[k].TxType_Refined = kind

FirstOccurrence(rows, r) ==
    CHOOSE i \in DOMAIN rows : rows[i] = r /\ \A j \in 1..(i - 1) : rows[j] # r

\* `out` holds each distinct row of `in` once, in first-occurrence order.
DistinctRowsOnceInOrder(in, out) ==
    /\ {out[i] : i \in DOMAIN out} = {in[i] : i \in DOMAIN in}
    /\ \A i, j \in DOMAIN out : i # j => out[i] # out[j]
    /\ \A i, j \in DOMAIN out :
          i < j => FirstOccurrence(in, out[i]) < FirstOccurrence(in, out[j])

\* C22: drop_duplicate_transfers returns each distinct row of its input once,
\* in first-occurrence order (so no row that differs from every other row is
\* removed); a second application changes nothing, and an empty table comes
\* back empty.
C22_ExactDuplicateRemoval ==
    pc \in {"dropped", "dropped twice"} =>
        /\ DistinctRowsOnceInOrder(transaction_df, dedup_df)
        /\ DistinctRowsOnceInOrder(dedup_df, dedup_df)
        /\ transaction_df = <<>> => dedup_df = <<>>

\* A table of two equal rows keeps one of them, also after the second
\* application.
C22_Witness ==
    /\ pc = "dropped twice"
    /\ Len(transaction_df) = 2
    /\ transaction_df[1] = transaction_df[2]
    /\ dedup_df = <<transaction_df[1]>>

\* ------------------------------------------------ claims: monthly summary

\* End_Inventory of the month before row k of the summary, 0 before the first.
PreviousEndInventory(k) ==
    IF k = 1 THEN {0} ELSE monthly[k - 1].End_Inventory

\* C23: in the monthly summary, End_Inventory of a month is End_Inventory of
\* the month before plus the month's Incoming minus its Outgoing, starting
\* from 0 before the first month.
C23_MonthlyRunningBalance ==
    pc = "summarised" =>
        \A k \in DOMAIN monthly :
            /\ monthly[k].End_Inventory # NoValue
            /\ PreviousEndInventory(k) # NoValue
            /\ ValueOf(monthly[k].End_Inventory)
                  = ValueOf(PreviousEndInventory(k))
                      + monthly[k].Incoming - monthly[k].Outgoing

\* ------------------------------------------- claims: validation summary

\* C24: validate_inventory_results raises for no expected mapping, the empty
\* mapping and locations without StockRecord included; when it reports, every
\* expected location has one summary entry, a match or a mismatch carrying
\* its difference, and a pass rate is returned.
C24_ValidationNeverRaises ==
    pc = "validated" =>
        /\ validation.kind # "raised"
        /\ validation.kind = "ok" =>
              /\ DOMAIN validation.summary = DOMAIN expected
              /\ \A l \in DOMAIN expected :
                    validation.summary[l].match
                        <=> ~ \E mm \in validation.mismatches : mm.location = l
              /\ validation.pass_rate.den > 0

\* ------------------------------------------------ claims: event quantity

\* The quantity a row should carry: its own raw quantity when that is neither
\* missing nor zero, else the one of the nearest earlier row of the case, else
\* of the nearest later row, else 1.
FilledQuantity(i) ==
    LET own == sheet_rows[i].qty
        known == {j \in DOMAIN sheet_rows :
                    /\ sheet_rows[j].case = sheet_rows[i].case
                    /\ sheet_rows[j].qty \notin {NoValue, {0}}}
    IN IF own \notin {NoValue, {0}} THEN ValueOf(own)
       ELSE IF \E j \in known : j < i
            THEN ValueOf(sheet_rows[MaxOf({j \in known : j < i})].qty)
       ELSE IF known # {} THEN ValueOf(sheet_rows[MinOf(known)].qty)
       ELSE 1

\* C25: every transaction extracted from a sheet carries a quantity > 0,
\* whatever the raw quantities are; a zero or missing raw quantity is filled
\* from the same case (forward, then backward) and is 1 when the case has none.
C25_QuantityPositive ==
    pc = "sheet extracted" =>
        /\ Len(transactions) = Len(sheet_rows)
        /\ \A i \in DOMAIN transactions :
              /\ transactions[i].incoming = FilledQuantity(i)
              /\ transactions[i].incoming > 0

\* ---------------------------------------------- claims: status location

\* A status field that is there and not blank.
NonBlank(field) == field # NoValue /\ Strip(Spelling[ValueOf(field)]) # <<>>

\* The first non-blank status value of a row in the order location, current,
\* warehouse.
FirstStatus(r) ==
    IF NonBlank(r.status_location) THEN r.status_location
    ELSE IF NonBlank(r.status_current) THEN r.status_current
    ELSE r.status_warehouse

AnyStatus(r) ==
    NonBlank(r.status_location) \/ NonBlank(r.status_current)
        \/ NonBlank(r.status_warehouse)

\* C26: for a row with a non-blank status field every emitted event is at the
\* location derived from the first such field in the order location, current,
\* warehouse, not at the warehouse of its column header; no emitted event is
\* at 'UNKNOWN'.
C26_StatusLocationOverridesHeader ==
    pc = "extracted" =>
        /\ \A i \in DOMAIN case_events : case_events[i].warehouse # "UNKNOWN"
        /\ AnyStatus(sheet_rows[1]) =>
              \A i \in DOMAIN case_events :
                  case_events[i].warehouse =
                      LoaderNormalizeWarehouseName(ValueOf(FirstStatus(sheet_rows[1])))

\* A row with a blank location status, current status Storage and warehouse
\* status MOSB, dated in the DSV Indoor and MOSB ETA columns: both events are
\* at the location of the current status.
C26_Witness ==
    /\ pc = "extracted"
    /\ sheet_rows[1].status_location = {""}
    /\ sheet_rows[1].status_current = {"Storage"}
    /\ sheet_rows[1].status_warehouse = {"MOSB"}
    /\ Len(case_events) = 2
    /\ case_events[1].source_column = "DSV Indoor"
    /\ case_events[2].source_column = "MOSB ETA"
    /\ case_events[1].warehouse = case_events[2].warehouse
    /\ case_events[1].warehouse \notin {"DSV Indoor", "MOSB", "UNKNOWN"}

\* ------------------------------------------ claims: location independence

\* The table without the rows of the other locations.
OnlyLocation(t, loc) ==
    [t EXCEPT !.rows = SelectSeq(@, LAMBDA r : r.Location = loc)]

\* C27: the StockRecords of a location are those the engine computes from the
\* rows of that location alone, whatever rows the table holds at the other
\* locations, and the whole result is the per-location results merged.
C27_LocationsIndependent ==
    pc = "calculated" =>
        /\ \A loc \in Locations :
              RecordsOf(stock, loc) = RunEngine(OnlyLocation(df, loc), clock)
        /\ stock = Concat([i \in DOMAIN LocationOrder |->
                              RunEngine(OnlyLocation(df, LocationOrder[i]), clock)])

\* A table with rows at both warehouses, stock left at the first one.
C27_Witness ==
    /\ pc = "calculated"
    /\ \E i \in DOMAIN df.rows : df.rows[i].Location = "DSV Indoor"
    /\ \E i \in DOMAIN df.rows : df.rows[i].Location = "MOSB"
    /\ \E i \in DOMAIN stock :
          stock[i].Location = "DSV Indoor" /\ stock[i].Closing_Stock > 0
    /\ \E i \in DOMAIN stock :
          stock[i].Location = "MOSB" /\ stock[i].Opening_Stock = 0

\* ----------------------------------------- claims: stock of the pipeline

\* C28: for the transactions extracted from a row, converted to typed
\* transactions, passed through duplicate removal and then through the stock
\* engine, Closing_Stock >= 0 in every StockRecord.
C28_PipelineStockNonNegative ==
    pc = "calculated" =>
        \A i \in DOMAIN stock : stock[i].Closing_Stock >= 0

\* ---------------------------------------------- claims: the two stock walks

\* The Closing_Stock of the last record of a location in a result.
FinalClosing(records, loc) ==
    LET recs == RecordsOf(records, loc) IN recs[Len(recs)].Closing_Stock

Balanced(rec) ==
    rec.Closing_Stock = rec.Opening_Stock + rec.Inbound - rec.Total_Outbound

\* C29: for every location other than UNKNOWN and blank, the per-transaction
\* walk and the per-day engine have records for the same locations and end on
\* the same Closing_Stock, and every record of both keeps closing = opening +
\* inbound - outbound.
C29_WalksAgree ==
    pc = "walked" =>
        /\ \A loc \in Locations \ SkippedLocations :
              /\ RecordsOf(walk_stock, loc) = <<>> <=> RecordsOf(stock, loc) = <<>>
              /\ RecordsOf(stock, loc) # <<>> =>
                    FinalClosing(walk_stock, loc) = FinalClosing(stock, loc)
        /\ \A i \in DOMAIN walk_stock : Balanced(walk_stock[i])
        /\ \A i \in DOMAIN stock : Balanced(stock[i])

\* Two transactions of one day at one location, one of them a FINAL_OUT: two
\* records in the walk, one in the engine, the same closing stock.
C29_Witness ==
    /\ pc = "walked"
    /\ Len(RecordsOf(walk_stock, "MOSB")) = 2
    /\ Len(RecordsOf(stock, "MOSB")) = 1
    /\ \E i \in DOMAIN walk_stock : walk_stock[i].Final_Out > 0
    /\ FinalClosing(stock, "MOSB") = 1
    /\ FinalClosing(walk_stock, "MOSB") = 1

\* --------------------------------------- claims: legacy flow classifier

\* C30: classify_transaction_type returns IN for a row whose TxType_Refined
\* is IN, and OUT for a row whose TxType_Refined is TRANSFER_OUT or FINAL_OUT.
C30_RefinedKindsRespected ==
    pc = "legacy" =>
        /\ row.TxType_Refined = {"IN"} => tx_type = "IN"
        /\ row.TxType_Refined \in {{"TRANSFER_OUT"}, {"FINAL_OUT"}} => tx_type = "OUT"

====
